---- MODULE Spec2Model ----
(***************************************************************************)
(* Switch Port Card Pro: the dashboard card that renders the ports of a    *)
(* network switch from Home Assistant entities.                            *)
(*                                                                         *)
(* Two cards of the repository are modelled side by side:                  *)
(*   - the current card  (src/unnamed/part_006, class SwitchPortCardPro,   *)
(*     lines 62-999), whose definitions keep the names of the source;      *)
(*   - the legacy card   (src/www/community/switch-port-card-pro/          *)
(*     switch-port-card-pro.js), whose definitions are prefixed Legacy.    *)
(*                                                                         *)
(* Conventions                                                             *)
(*   - Text that the code searches (entity ids, unit labels, config.device)*)
(*     is a sequence of one-character strings, so that includes(),         *)
(*     startsWith() and the port regular expression are computed.          *)
(*     Text that the code only produces (speed text, style class) is a     *)
(*     TLA+ string.                                                        *)
(*   - Every bit rate is counted in units of 100 bit/s, so that 10 Gbit/s  *)
(*     fits the 32-bit integers of the model checker.  PerKbit, PerMbit    *)
(*     and PerGbit are the number of units in 1e3, 1e6 and 1e9 bit/s.      *)
(*   - JavaScript numbers are modelled by integers and exact fractions;    *)
(*     the rates and thresholds of the model are exactly representable as  *)
(*     doubles, so that the comparisons agree with IEEE arithmetic.        *)
(***************************************************************************)
EXTENDS Integers, Sequences, FiniteSets, TLC

(***************************************************************************)
(* Bounds of the model.                                                    *)
(***************************************************************************)
NumPorts == 2      \* port numbers 1..NumPorts can have a status entity
MaxNow == 1        \* the clock runs over 0..MaxNow hours
MaxClicks == 4     \* clicks on the scheme button between two calls of setConfig
LayoutPorts == 4   \* port numbers 1..LayoutPorts of the batches that are laid out

(***************************************************************************)
(* JavaScript helpers.                                                     *)
(***************************************************************************)
Null == [null |-> TRUE]

ToLowerChar(c) ==
  CASE c = "G" -> "g" [] c = "M" -> "m" [] c = "K" -> "k"
    [] c = "B" -> "b" [] c = "I" -> "i" [] c = "T" -> "t"
    [] c = "S" -> "s" [] c = "P" -> "p" [] OTHER -> c

toLowerCase(s) == [k \in 1..Len(s) |-> ToLowerChar(s[k])]

includes(s, pat) ==
  \/ Len(pat) = 0
  \/ \E k \in 1..(Len(s) - Len(pat) + 1) :
       s[k] = pat[1] /\ SubSeq(s, k, k + Len(pat) - 1) = pat

startsWith(s, pat) == Len(pat) <= Len(s) /\ SubSeq(s, 1, Len(pat)) = pat

endsWith(s, pat) ==
  Len(pat) <= Len(s) /\ SubSeq(s, Len(s) - Len(pat) + 1, Len(s)) = pat

\* indexOf: the first position where pat occurs in s (includes(s, pat) holds)
indexOf(s, pat) ==
  CHOOSE k \in 1..(Len(s) - Len(pat) + 1) :
    /\ SubSeq(s, k, k + Len(pat) - 1) = pat
    /\ \A j \in 1..(k - 1) : SubSeq(s, j, j + Len(pat) - 1) # pat

\* the characters of s joined into one TLA+ string
RECURSIVE Join(_)
Join(s) == IF s = <<>> THEN "" ELSE Head(s) \o Join(Tail(s))

Digit == {"0", "1", "2", "3", "4", "5", "6", "7", "8", "9"}

\* the characters of `${n}` for n >= 0
RECURSIVE DigitsOf(_)
DigitsOf(n) ==
  IF n < 10 THEN <<ToString(n)>> ELSE DigitsOf(n \div 10) \o <<ToString(n % 10)>>

\* String.prototype.trim, for the blank " "
RECURSIVE trimStart(_)
trimStart(s) == IF Len(s) > 0 /\ Head(s) = " " THEN trimStart(Tail(s)) ELSE s

RECURSIVE trimEnd(_)
trimEnd(s) ==
  IF Len(s) > 0 /\ s[Len(s)] = " " THEN trimEnd(SubSeq(s, 1, Len(s) - 1)) ELSE s

trim(s) == trimEnd(trimStart(s))

\* Math.round(n / d) for d > 0: the nearest integer, a half rounded up
Round(n, d) == (2 * n + d) \div (2 * d)

\* x.toFixed(2) of a value given in hundredths
Fixed2(hundredths) ==
  LET h == IF hundredths < 0 THEN -hundredths ELSE hundredths
  IN  (IF hundredths < 0 THEN "-" ELSE "")
        \o ToString(h \div 100) \o "." \o ToString((h % 100) \div 10) \o ToString(h % 10)

\* the nearest integer of n / d with a half rounded away from zero (toFixed)
RoundAway(n, d) == IF n < 0 THEN -Round(-n, d) ELSE Round(n, d)

\* x.toFixed(1) of a value given in tenths
Fixed1(tenths) ==
  IF tenths < 0
    THEN "-" \o ToString((-tenths) \div 10) \o "." \o ToString((-tenths) % 10)
    ELSE ToString(tenths \div 10) \o "." \o ToString(tenths % 10)

SetMax(S) == CHOOSE m \in S : \A x \in S : x <= m

PerKbit == 2 * 5
PerMbit == 1000 * PerKbit
PerGbit == 1000 * PerMbit

(***************************************************************************)
(* Patterns of the source.                                                 *)
(***************************************************************************)
Underscore == <<"_">>
TotalBandwidthPat == <<"_", "t", "o", "t", "a", "l", "_", "b", "a", "n", "d", "w", "i", "d", "t", "h">>
SystemCpuPat == <<"_", "s", "y", "s", "t", "e", "m", "_", "c", "p", "u">>
CpuUsagePat == <<"c", "p", "u", "_", "u", "s", "a", "g", "e">>
SystemMemoryPat == <<"_", "s", "y", "s", "t", "e", "m", "_", "m", "e", "m", "o", "r", "y">>
MemoryUsagePat == <<"m", "e", "m", "o", "r", "y", "_", "u", "s", "a", "g", "e">>
UptimePat == <<"u", "p", "t", "i", "m", "e">>
HostnamePat == <<"h", "o", "s", "t", "n", "a", "m", "e">>
TotalPoePat == <<"t", "o", "t", "a", "l", "_", "p", "o", "e">>
CustomValuePat == <<"c", "u", "s", "t", "o", "m", "_", "v", "a", "l", "u", "e">>
FirmwarePat == <<"f", "i", "r", "m", "w", "a", "r", "e">>
PortPat == <<"_", "p", "o", "r", "t", "_">>
StatusPat == <<"_", "s", "t", "a", "t", "u", "s">>
GbitPat == <<"g", "b", "i", "t">>
MbitPat == <<"m", "b", "i", "t">>
KbitPat == <<"k", "b", "i", "t">>
BitPerSecPat == <<"b", "i", "t", "/", "s">>

(***************************************************************************)
(* DEFAULT_CONFIG: the keys of the configuration that the modelled code    *)
(* reads.                                                                  *)
(***************************************************************************)
DEFAULT_CONFIG ==
  [ device |-> <<>>,
    entity |-> <<>>,
    total_ports |-> 8,
    sfp_start_port |-> 9,
    custom_port_text |-> "Custom Port Val.",
    row2 |-> "rx_tx_live",
    row3 |-> "speed",
    color_scheme |-> "speed",
    port_size |-> "medium",
    hide_unused_port |-> FALSE,
    hide_unused_port_hours |-> 24,
    layout_mode |-> "linear",
    truncate_text |-> TRUE,
    custom_text |-> "Custom Value",
    show_total_bandwidth |-> TRUE,
    max_bandwidth_gbps |-> 100,
    \* not a key of DEFAULT_CONFIG: TRUE stands for a config without the key
    show_system_info |-> TRUE,
    system_boxes |-> [ cpu |-> TRUE, memory |-> TRUE, uptime |-> TRUE, hostname |-> TRUE,
                       poe |-> TRUE, firmware |-> TRUE, custom |-> TRUE ],
    system_box_overrides |-> [ cpu |-> <<>>, memory |-> <<>>, uptime |-> <<>>,
                               hostname |-> <<>>, poe |-> <<>>, firmware |-> <<>>,
                               custom |-> <<>> ] ]

(***************************************************************************)
(* hass.states is the sequence of the host's entities in key order; every  *)
(* entity carries its entity_id.  A port entity is                         *)
(*   [entity_id, state, attributes, text, last_changed]                    *)
(* where `attributes` holds the attributes whose value is a number or a    *)
(* boolean (speed_bps, rx_bps_live, tx_bps_live, rx_bps, tx_bps, vlan_id,  *)
(* poe_enabled, and port_name when the host reports a number for it) and   *)
(* `text` holds the attributes whose value is a string that is no number   *)
(* (port_name, interface, custom, and speed_bps or a rate when the host    *)
(* reports text for it).  A key is in at most one of the two.              *)
(* The bandwidth entity is                                                 *)
(*   [entity_id, state, attributes |-> [unit_of_measurement]]              *)
(* where state is the number that Number(state) yields.  An object of the  *)
(* code ({} and its keys) is a function from TLA+ strings.                 *)
(***************************************************************************)
EmptyObject == <<>>

\* parseFloat(ent.attributes?.[k] || 0) || 0, and Math.round(x / 1e6) || 0 of
\* it: a missing attribute and text that is no number (NaN) give 0
NumberOf(ent, k) == IF k \in DOMAIN ent.attributes THEN ent.attributes[k] ELSE 0

\* ent.attributes?.[k] || "" of an attribute that holds text
TextOf(ent, k) == IF k \in DOMAIN ent.text THEN ent.text[k] ELSE <<>>

Keys(hass) == [k \in 1..Len(hass.states) |-> hass.states[k].entity_id]

HasState(hass, id) == \E k \in 1..Len(hass.states) : hass.states[k].entity_id = id

StateOf(hass, id) ==
  hass.states[CHOOSE k \in 1..Len(hass.states) : hass.states[k].entity_id = id]

SystemPat == <<"_", "s", "y", "s", "t", "e", "m", "_">>

\* id.match(/_port_(\d+)_status/): the places <<k, n>> where the expression
\* matches, k the position of "_port_" and n the number of digits
PortMatches(id) ==
  LET starts == {k \in 1..(Len(id) - Len(PortPat) + 1) :
                   id[k] = PortPat[1] /\ SubSeq(id, k, k + Len(PortPat) - 1) = PortPat}
      lengths(k) == {n \in 1..(Len(id) - k - Len(PortPat) - Len(StatusPat) + 1) :
                       /\ \A j \in 0..(n - 1) : id[k + Len(PortPat) + j] \in Digit
                       /\ SubSeq(id, k + Len(PortPat) + n,
                                     k + Len(PortPat) + n + Len(StatusPat) - 1) = StatusPat}
  IN  UNION {{<<k, n>> : n \in lengths(k)} : k \in starts}

\* m[1] of the leftmost match
PortDigits(id) ==
  LET matches == PortMatches(id)
      km == CHOOSE x \in matches : \A y \in matches : x[1] <= y[1]
  IN  SubSeq(id, km[1] + Len(PortPat), km[1] + Len(PortPat) + km[2] - 1)

\* the key of `entities` that the id is stored under, "" when it is skipped
EntityKey(id) ==
  IF includes(id, TotalBandwidthPat) THEN "bandwidth"
  ELSE IF includes(id, SystemCpuPat) \/ includes(id, CpuUsagePat) THEN "cpu"
  ELSE IF includes(id, SystemMemoryPat) \/ includes(id, MemoryUsagePat) THEN "memory"
  ELSE IF includes(id, SystemPat \o UptimePat) \/ includes(id, UptimePat) THEN "uptime"
  ELSE IF includes(id, SystemPat \o HostnamePat) \/ includes(id, HostnamePat) THEN "hostname"
  ELSE IF includes(id, Underscore \o TotalPoePat) \/ includes(id, TotalPoePat) THEN "total_poe"
  ELSE IF includes(id, Underscore \o CustomValuePat) \/ includes(id, CustomValuePat) THEN "custom_value"
  ELSE IF includes(id, Underscore \o FirmwarePat) \/ includes(id, FirmwarePat) THEN "firmware"
  ELSE IF includes(id, PortPat) /\ includes(id, StatusPat) /\ PortMatches(id) # {}
       THEN "port_" \o Join(PortDigits(id)) \o "_status"
  ELSE ""

RECURSIVE FilterPrefix(_, _)
FilterPrefix(ids, prefix) ==
  IF Len(ids) = 0 THEN <<>>
  ELSE IF startsWith(Head(ids), prefix)
       THEN <<Head(ids)>> \o FilterPrefix(Tail(ids), prefix)
       ELSE FilterPrefix(Tail(ids), prefix)

searchEntities(config, hass) ==
  LET byDevice ==
        IF config.device # <<>>
          THEN FilterPrefix(Keys(hass),
                 IF endsWith(config.device, Underscore) THEN config.device
                 ELSE config.device \o Underscore)
          ELSE <<>>
      byEntity ==
        IF Len(byDevice) = 0 /\ config.entity # <<>>
          THEN IF includes(config.entity, TotalBandwidthPat)
                 THEN FilterPrefix(Keys(hass),
                        SubSeq(config.entity, 1, indexOf(config.entity, TotalBandwidthPat) - 1)
                          \o Underscore)
                 ELSE <<config.entity>>
          ELSE byDevice
  IN  IF Len(byEntity) = 0 THEN Keys(hass) ELSE byEntity

RECURSIVE CollectFrom(_, _, _)
CollectFrom(ids, hass, entities) ==
  IF Len(ids) = 0 THEN entities
  ELSE LET id == Head(ids)
           key == EntityKey(id)
       IN  CollectFrom(Tail(ids), hass,
             IF HasState(hass, id) /\ key # ""
               THEN (key :> StateOf(hass, id)) @@ entities
               ELSE entities)

collectEntities(config, hass) ==
  IF config = Null THEN EmptyObject
  ELSE CollectFrom(searchEntities(config, hass), hass, EmptyObject)

(***************************************************************************)
(* The current card: _render and its local functions.                      *)
(***************************************************************************)
\* the glyphs of the direction: U+2193, U+2191 and U+2195
ArrowDown == "DOWN"
ArrowUp == "UP"
ArrowBoth == "BALANCED"

\* formatTraffic with Math.floor in place of Math.round
formatTrafficFloor(bps) ==
  IF bps = 0 THEN "0K"
  ELSE IF bps >= 1000 * PerMbit THEN ToString(bps \div PerGbit) \o "G"
  ELSE IF bps >= PerMbit THEN ToString(bps \div PerMbit) \o "M"
  ELSE ToString(bps \div PerKbit) \o "K"

formatTraffic(bps) ==
  IF bps = 0 THEN "0K"
  ELSE IF bps >= 1000 * PerMbit THEN ToString(Round(bps, PerGbit)) \o "G"
  ELSE IF bps >= PerMbit THEN ToString(Round(bps, PerMbit)) \o "M"
  ELSE ToString(Round(bps, PerKbit)) \o "K"

\* Math.round((ent.attributes?.speed_bps || 0) / 1e6) || 0
speedMbpsOf(ent) == Round(NumberOf(ent, "speed_bps"), PerMbit)

\* the speed ladder with the last branch falling back to the look of a port
\* that is down
SpeedSchemeOffBelowTen(speedMbps) ==
  IF speedMbps >= 10000 THEN [speedClass |-> "on-10g", speedText |-> "10G"]
  ELSE IF speedMbps >= 5000 THEN [speedClass |-> "on-5g", speedText |-> "5G"]
  ELSE IF speedMbps >= 2500 THEN [speedClass |-> "on-2_5g", speedText |-> "2.5G"]
  ELSE IF speedMbps >= 1000 THEN [speedClass |-> "on-1g", speedText |-> "1G"]
  ELSE IF speedMbps >= 100 THEN [speedClass |-> "on-100m", speedText |-> "100M"]
  ELSE IF speedMbps >= 10 THEN [speedClass |-> "on-10m", speedText |-> "10M"]
  ELSE [speedClass |-> "off", speedText |-> "OFF"]

\* case "speed"
SpeedScheme(speedMbps) ==
  IF speedMbps >= 10000 THEN [speedClass |-> "on-10g", speedText |-> "10G"]
  ELSE IF speedMbps >= 5000 THEN [speedClass |-> "on-5g", speedText |-> "5G"]
  ELSE IF speedMbps >= 2500 THEN [speedClass |-> "on-2_5g", speedText |-> "2.5G"]
  ELSE IF speedMbps >= 1000 THEN [speedClass |-> "on-1g", speedText |-> "1G"]
  ELSE IF speedMbps >= 100 THEN [speedClass |-> "on-100m", speedText |-> "100M"]
  ELSE IF speedMbps >= 10 THEN [speedClass |-> "on-10m", speedText |-> "10M"]
  ELSE [speedClass |-> "on-0m", speedText |-> ToString(speedMbps) \o "M"]

RECURSIVE SumTraffic(_)
SumTraffic(allPorts) ==
  IF Len(allPorts) = 0 THEN 0 ELSE Head(allPorts).traffic + SumTraffic(Tail(allPorts))

\* the total of the traffic taken for its maximum
maxTrafficAsSum(allPorts) ==
  LET m == SumTraffic(allPorts)
  IN  IF m >= 1 THEN [num |-> m, den |-> 1]
      ELSE [num |-> 1, den |-> 1000 \div PerKbit]

\* Math.max(...allPorts.map(p => p.traffic), 1): the fraction num/den of a
\* unit; the 1 of the code is 1 bit/s, the hundredth of a unit
maxTrafficOf(allPorts) ==
  LET m == SetMax({0} \cup {allPorts[k].traffic : k \in 1..Len(allPorts)})
  IN  IF m >= 1 THEN [num |-> m, den |-> 1]
      ELSE [num |-> 1, den |-> 1000 \div PerKbit]

\* the comparison of the ratio with >= in place of >
RatioAtLeast(traffic, maxTraffic, tenths) ==
  10 * traffic * maxTraffic.den >= tenths * maxTraffic.num

\* ratio > tenths / 10, where ratio = traffic / maxTraffic
RatioAbove(traffic, maxTraffic, tenths) ==
  10 * traffic * maxTraffic.den > tenths * maxTraffic.num

\* case "heatmap"
HeatmapScheme(traffic, maxTraffic) ==
  [ speedClass |->
      IF RatioAbove(traffic, maxTraffic, 9) THEN "heatmap-10"
      ELSE IF RatioAbove(traffic, maxTraffic, 8) THEN "heatmap-9"
      ELSE IF RatioAbove(traffic, maxTraffic, 7) THEN "heatmap-8"
      ELSE IF RatioAbove(traffic, maxTraffic, 6) THEN "heatmap-7"
      ELSE IF RatioAbove(traffic, maxTraffic, 5) THEN "heatmap-6"
      ELSE IF RatioAbove(traffic, maxTraffic, 4) THEN "heatmap-5"
      ELSE IF RatioAbove(traffic, maxTraffic, 3) THEN "heatmap-4"
      ELSE IF RatioAbove(traffic, maxTraffic, 2) THEN "heatmap-3"
      ELSE IF RatioAbove(traffic, maxTraffic, 1) THEN "heatmap-2"
      ELSE "heatmap-1",
    speedText |-> formatTraffic(traffic) ]

\* the ladder with one class for everything below 0.1 Mbps
ActualSpeedOneClassBelow(totalBps) ==
  IF totalBps >= 100 * PerMbit
    THEN [speedClass |-> "actual-100m",
          speedText |-> Fixed1(Round(totalBps, PerGbit \div 10)) \o "G"]
  ELSE IF totalBps >= 10 * PerMbit
    THEN [speedClass |-> "actual-10m",
          speedText |-> Fixed1(Round(totalBps, PerMbit \div 10)) \o "M"]
  ELSE IF totalBps >= PerMbit
    THEN [speedClass |-> "actual-1m",
          speedText |-> ToString(Round(totalBps, PerMbit)) \o "M"]
  ELSE IF 10 * totalBps >= PerMbit
    THEN [speedClass |-> "actual-100k",
          speedText |-> ToString(Round(totalBps, PerMbit \div 10)) \o "K"]
  ELSE [speedClass |-> "actual-off", speedText |-> "0k"]

\* case "actual_speed"; mbps = totalBps / 1e6
ActualSpeedScheme(totalBps) ==
  IF totalBps >= 100 * PerMbit
    THEN [speedClass |-> "actual-100m",
          speedText |-> Fixed1(Round(totalBps, PerGbit \div 10)) \o "G"]
  ELSE IF totalBps >= 10 * PerMbit
    THEN [speedClass |-> "actual-10m",
          speedText |-> Fixed1(Round(totalBps, PerMbit \div 10)) \o "M"]
  ELSE IF totalBps >= PerMbit
    THEN [speedClass |-> "actual-1m",
          speedText |-> ToString(Round(totalBps, PerMbit)) \o "M"]
  ELSE IF 10 * totalBps >= PerMbit
    THEN [speedClass |-> "actual-100k",
          speedText |-> ToString(Round(totalBps, PerMbit \div 10)) \o "K"]
  ELSE IF totalBps > PerKbit
    THEN [speedClass |-> "actual-1k",
          speedText |-> ToString(Round(totalBps, PerMbit \div 100)) \o "K"]
  ELSE [speedClass |-> "actual-off", speedText |-> "0k"]

\* the switch with the speed ladder as its default branch
SchemeOfDefaultSpeed(config, speedMbps, traffic, totalBps, maxTraffic) ==
  CASE config.color_scheme = "heatmap" -> HeatmapScheme(traffic, maxTraffic)
    [] config.color_scheme = "vlan" -> [speedClass |-> "vlan-colored", speedText |-> "OFF"]
    [] config.color_scheme = "actual_speed" -> ActualSpeedScheme(totalBps)
    [] OTHER -> SpeedScheme(speedMbps)

\* switch (this._config.color_scheme || "speed"), for a port that is on
SchemeOf(config, speedMbps, traffic, totalBps, maxTraffic) ==
  CASE config.color_scheme \in {"", "speed"} -> SpeedScheme(speedMbps)
    [] config.color_scheme = "heatmap" -> HeatmapScheme(traffic, maxTraffic)
    [] config.color_scheme = "vlan" -> [speedClass |-> "vlan-colored", speedText |-> "OFF"]
    [] config.color_scheme = "actual_speed" -> ActualSpeedScheme(totalBps)
    [] OTHER -> [speedClass |-> "on-1g", speedText |-> "OFF"]

\* the direction with the factor 2 in place of 1.8
directionOfFactorTwo(rxBps, txBps) ==
  IF rxBps > 2 * txBps THEN ArrowDown
  ELSE IF txBps > 2 * rxBps THEN ArrowUp
  ELSE ArrowBoth

\* rxBps > txBps * 1.8 and txBps > rxBps * 1.8, in fifths
directionOf(rxBps, txBps) ==
  IF 5 * rxBps > 9 * txBps THEN ArrowDown
  ELSE IF 5 * txBps > 9 * rxBps THEN ArrowUp
  ELSE ArrowBoth

\* the placeholder ' ' of an empty row, and the null of a row "none"
Nbsp == "&nbsp;"
NoRow == "(null)"

\* _formatLastSeen(seconds); "-" stands for the dash that the code returns
formatLastSeen(seconds) ==
  IF seconds <= 0 THEN "-"
  ELSE LET days == seconds \div 86400
           hours == (seconds % 86400) \div 3600
       IN  IF days > 0 THEN ToString(days) \o "d " \o ToString(hours) \o "h"
           ELSE IF hours > 0 THEN ToString(hours) \o "h"
           ELSE "<1h"

\* the palette of _vlanColor
colors ==
  << "#dc5d87ff", "#7b6291ff", "#7f798aff", "#434f94ff", "#57a5e4ff",
     "#015881ff", "#00bcd4", "#009688", "#4caf50", "#8bc34a",
     "#ffc107", "#ff9800", "#ff5722", "#795548", "#607d8b",
     "#4fc3f7", "#ba68c8", "#ffb74d", "#aed581", "#ce93d8" >>

\* ent.attributes?.vlan_id: 0 stands for a missing (falsy) VLAN id
vlanOf(ent) == NumberOf(ent, "vlan_id")

\* the palette indexed from 1, as if its first entry had the index 1
vlanColorFromOne(vlan) ==
  IF vlan = 0 THEN "transparent" ELSE colors[((vlan - 1) % Len(colors)) + 1]

\* _vlanColor(vlan), vlan >= 0
vlanColor(vlan) ==
  IF vlan = 0 THEN "transparent" ELSE colors[(vlan % Len(colors)) + 1]

\* truncate(str, portSize) || ' ' of renderRowContent
truncate(config, str, portSize) ==
  IF config.truncate_text # TRUE
    THEN (IF str = <<>> THEN Nbsp ELSE Join(str))
  ELSE IF str = <<>> THEN Nbsp
  ELSE LET t == trim(str)
           maxChars == CASE portSize = "xsmall" -> 12
                         [] portSize = "small" -> 11
                         [] portSize = "medium" -> 10
                         [] portSize = "large" -> 9
                         [] portSize = "xlarge" -> 7
                         [] OTHER -> 10
           out == IF Len(t) <= maxChars THEN t
                  ELSE SubSeq(t, 1, maxChars - 2) \o <<".", ".">>
       IN  IF out = <<>> THEN Nbsp ELSE Join(out)

\* field.toLowerCase() of a row key, for the spellings that the configs of
\* the model use
lowerOfRow(field) ==
  CASE field = "None" -> "none"
    [] field = "Name" -> "name"
    [] OTHER -> field

\* key.trim() of a row key in lower case
trimOfRow(field) ==
  CASE field = " none " -> "none"
    [] field = " vlan" -> "vlan"
    [] OTHER -> field

\* const hasRow3 = this._config.row3 && this._config.row3.toLowerCase() !== "none"
hasRow3Of(config) == config.row3 # "" /\ lowerOfRow(config.row3) # "none"

\* renderRowContent(field, ctx, portIsOn)
renderRowContent(config, field, ctx, portIsOn) ==
  LET key == trimOfRow(lowerOfRow(field))
      size == IF config.port_size = "" THEN "small" ELSE config.port_size
  IN  CASE key = "none" -> NoRow
        [] key \in {"rx_tx_live", "rx/tx_live", "live"} ->
             formatTraffic(ctx.rxBps) \o "-" \o formatTraffic(ctx.txBps)
        [] key \in {"rx_tx", "rx/tx", "lifetime", "total"} ->
             formatTraffic(ctx.rxBpsLifetime) \o "-" \o formatTraffic(ctx.txBpsLifetime)
        [] key = "speed" ->
             IF portIsOn THEN (IF ctx.speedText = "" THEN Nbsp ELSE ctx.speedText) ELSE Nbsp
        [] key \in {"port_custom", "custom"} -> truncate(config, ctx.port_custom, size)
        [] key = "name" -> truncate(config, ctx.name, size)
        [] key = "interface" -> truncate(config, ctx.ifDescr, size)
        [] key \in {"vlan_id", "vlan"} ->
             IF ctx.vlan # 0 THEN "VLAN " \o ToString(ctx.vlan) ELSE Nbsp
        [] OTHER -> Nbsp

\* the name without the default `Port ${i}`
nameOrEmpty(i, ent) == trim(TextOf(ent, "port_name"))

\* ent.attributes?.port_name?.trim() throws a TypeError when port_name is a
\* number: a number has no method trim
NameThrows(ent) == "port_name" \in DOMAIN ent.attributes

\* const name = ent.attributes?.port_name?.trim() || `Port ${i}`
nameOf(i, ent) ==
  IF trim(TextOf(ent, "port_name")) # <<>> THEN trim(TextOf(ent, "port_name"))
  ELSE <<"P", "o", "r", "t", " ">> \o DigitsOf(i)

\* the body of portList.forEach in renderPortRow: the tile of one port
PortTile(config, maxTraffic, port, now) ==
  LET ent == port.ent
      i == port.i
      speedMbps == speedMbpsOf(ent)
      name == nameOf(i, ent)
      vlan == vlanOf(ent)
      ifDescr == TextOf(ent, "interface")
      port_custom == TextOf(ent, "custom")
      rxBps == NumberOf(ent, "rx_bps_live")
      txBps == NumberOf(ent, "tx_bps_live")
      idleSeconds == now - ent.last_changed
      totalBps == rxBps + txBps
      scheme == IF port.isOn
                  THEN SchemeOf(config, speedMbps, port.traffic, totalBps, maxTraffic)
                  ELSE [speedClass |-> "off", speedText |-> "-"]
      direction == IF port.isOn THEN directionOf(rxBps, txBps) ELSE "-"
      ctx == [ rxBpsLifetime |-> NumberOf(ent, "rx_bps"),
               txBpsLifetime |-> NumberOf(ent, "tx_bps"),
               rxBps |-> rxBps,
               txBps |-> txBps,
               speedText |-> scheme.speedText,
               port_custom |-> port_custom,
               name |-> name,
               ifDescr |-> ifDescr,
               vlan |-> vlan ]
  IN  [ i |-> i,
        isOn |-> port.isOn,
        speedClass |-> scheme.speedClass,
        className |-> {"port", scheme.speedClass}
                        \cup (IF i >= config.sfp_start_port THEN {"sfp"} ELSE {})
                        \cup (IF ~port.isOn THEN {"off"} ELSE {}),
        \* div.style.background of the VLAN coloring override, "" without it
        background |-> IF config.color_scheme = "vlan"
                         THEN (IF vlan # 0 THEN vlanColor(vlan) ELSE "#607d8b")
                         ELSE "",
        vlanDot |-> vlanColor(vlan),
        speedText |-> scheme.speedText,
        portDirectionDisplay |->
          IF port.isOn
            THEN (IF direction \in {ArrowDown, ArrowUp} THEN direction ELSE ArrowBoth)
            ELSE "-",
        title |->
          <<Join(name)>>
          \o (IF ifDescr # <<>> THEN <<"Interface: " \o Join(ifDescr)>> ELSE <<>>)
          \o <<"State: " \o (IF port.isOn THEN "UP" ELSE "DOWN")>>
          \o <<"Speed: " \o scheme.speedText>>
          \o (IF vlan # 0 THEN <<"VLAN: " \o ToString(vlan)>> ELSE <<>>)
          \o <<"RX: " \o Fixed2(RoundAway(rxBps, PerMbit \div 100)) \o " Mb/s">>
          \o <<"TX: " \o Fixed2(RoundAway(txBps, PerMbit \div 100)) \o " Mb/s">>
          \o (IF port_custom # <<>>
                THEN <<config.custom_port_text \o ": " \o Join(port_custom)>> ELSE <<>>)
          \o <<"Last seen: " \o formatLastSeen(idleSeconds)>>,
        row2 |-> renderRowContent(config, config.row2, ctx, port.isOn),
        row3 |-> IF hasRow3Of(config)
                   THEN renderRowContent(config, config.row3, ctx, port.isOn) ELSE NoRow,
        poe |-> "poe_enabled" \in DOMAIN ent.attributes /\ ent.attributes.poe_enabled = TRUE,
        rxBps |-> rxBps,
        txBps |-> txBps ]

\* the elements of a set of numbers in ascending order
RECURSIVE Ascending(_)
Ascending(S) ==
  IF S = {} THEN <<>>
  ELSE LET m == CHOOSE x \in S : \A y \in S : x <= y
       IN  <<m>> \o Ascending(S \ {m})

RECURSIVE Filter(_, _)
Filter(ports, keep) ==
  IF Len(ports) = 0 THEN <<>>
  ELSE IF Head(ports).i \in keep
       THEN <<Head(ports)>> \o Filter(Tail(ports), keep)
       ELSE Filter(Tail(ports), keep)

PortKey(i) == "port_" \o ToString(i) \o "_status"

\* first pass: every port 1..total_ports that has a status entity
allPortsOf(config, e) ==
  LET present == {i \in 1..config.total_ports : PortKey(i) \in DOMAIN e}
      seq == Ascending(present)
  IN  [k \in 1..Len(seq) |->
        [ i |-> seq[k],
          traffic |-> NumberOf(e[PortKey(seq[k])], "rx_bps_live")
                        + NumberOf(e[PortKey(seq[k])], "tx_bps_live"),
          ent |-> e[PortKey(seq[k])] ]]

\* the test with > in place of >=
HiddenStrictlyLater(config, ent, now) ==
  /\ ent.state # "on"
  /\ config.hide_unused_port
  /\ now - ent.last_changed > config.hide_unused_port_hours * 3600

\* the test of the second pass: the port is left out as unused
Hidden(config, ent, now) ==
  /\ ent.state # "on"
  /\ config.hide_unused_port
  /\ now - ent.last_changed >= config.hide_unused_port_hours * 3600

\* second pass: the visible ports, each with isOn
visiblePortsOf(config, allPorts, now) ==
  LET shown == {allPorts[k].i : k \in {j \in 1..Len(allPorts) :
                                        ~Hidden(config, allPorts[j].ent, now)}}
      kept == Filter(allPorts, shown)
  IN  [k \in 1..Len(kept) |->
        [ i |-> kept[k].i, traffic |-> kept[k].traffic, ent |-> kept[k].ent,
          isOn |-> kept[k].ent.state = "on" ]]

\* rearrange with the rows of even_top and odd_top exchanged
rearrangeSwapped(layout, ports) ==
  LET even == Filter(ports, {ports[k].i : k \in {j \in 1..Len(ports) : ports[j].i % 2 = 0}})
      odd == Filter(ports, {ports[k].i : k \in {j \in 1..Len(ports) : ports[j].i % 2 # 0}})
  IN  IF layout = "linear" THEN [single |-> ports, top |-> <<>>, bottom |-> <<>>]
      ELSE IF layout = "even_top" THEN [single |-> <<>>, top |-> odd, bottom |-> even]
      ELSE [single |-> <<>>, top |-> even, bottom |-> odd]

\* rearrange(ports); the ports arrive in ascending order, the sort keeps it
rearrange(layout, ports) ==
  LET even == Filter(ports, {ports[k].i : k \in {j \in 1..Len(ports) : ports[j].i % 2 = 0}})
      odd == Filter(ports, {ports[k].i : k \in {j \in 1..Len(ports) : ports[j].i % 2 # 0}})
  IN  IF layout = "linear" THEN [single |-> ports, top |-> <<>>, bottom |-> <<>>]
      ELSE IF layout = "even_top" THEN [single |-> <<>>, top |-> even, bottom |-> odd]
      ELSE [single |-> <<>>, top |-> odd, bottom |-> even]

\* the ports of a list whose tile is built: those before the first port whose
\* forEach body throws
RECURSIVE Completed(_)
Completed(portList) ==
  IF Len(portList) = 0 \/ NameThrows(Head(portList).ent) THEN <<>>
  ELSE <<Head(portList)>> \o Completed(Tail(portList))

RowThrows(portList) == Len(Completed(portList)) < Len(portList)

\* renderPortRow(portList, container): the tiles appended to the container
renderPortRow(config, maxTraffic, portList, now) ==
  LET done == Completed(portList)
  IN  [k \in 1..Len(done) |-> PortTile(config, maxTraffic, done[k], now)]

\* header bandwidth of the current card: the value as the fraction num/den and
\* the unit of the text `${val.toFixed(1)} ${unit}`
bandwidthOf(bw) ==
  LET val == bw.state
      u == toLowerCase(bw.attributes.unit_of_measurement)
  IN  IF includes(u, GbitPat) \/ (includes(u, MbitPat) /\ val > 1000)
        THEN [num |-> val, den |-> 1000, unit |-> "Gbps"]
      ELSE IF includes(u, BitPerSecPat) /\ ~includes(u, MbitPat)
                /\ ~includes(u, KbitPat) /\ ~includes(u, GbitPat)
        THEN [num |-> val, den |-> 1000000, unit |-> "Mbps"]
      ELSE IF includes(u, KbitPat)
        THEN [num |-> val, den |-> 1000, unit |-> "Mbps"]
      ELSE [num |-> val, den |-> 1, unit |-> "Mbps"]

\* let bwText = "- Mbps" when there is no bandwidth entity
NoBandwidth == [num |-> 0, den |-> 0, unit |-> "Mbps"]

(***************************************************************************)
(* The gauge.  A percentage is a fraction num / den in lowest terms.       *)
(***************************************************************************)
RECURSIVE Gcd(_, _)
Gcd(a, b) == IF b = 0 THEN a ELSE Gcd(b, a % b)

Fraction(num, den) ==
  LET g == Gcd(IF num < 0 THEN -num ELSE num, den)
  IN  [num |-> num \div g, den |-> den \div g]

\* Math.min(num / den, 100), den > 0
CappedAt100(num, den) ==
  IF num \div den >= 100 THEN Fraction(100, 1) ELSE Fraction(num, den)

\* pct = Math.min((val / ((max_bandwidth_gbps || 100) * 1000)) * 100, 100)
\* of val = b.num / b.den
pctOf(config, b) ==
  LET max == IF config.max_bandwidth_gbps = 0 THEN 100 ELSE config.max_bandwidth_gbps
  IN  CappedAt100(b.num, b.den * max * 10)

HiddenGauge == [display |-> "none", pct |-> Fraction(0, 1)]

\* the gauge after _render: val takes the branches of the header's value; a
\* hidden gauge keeps the width of its fill
gaugeOf(config, e, d) ==
  IF config.show_total_bandwidth # FALSE /\ "bandwidth" \in DOMAIN e
    THEN [display |-> "block", pct |-> pctOf(config, bandwidthOf(e["bandwidth"]))]
    ELSE [display |-> "none", pct |-> d.gauge.pct]

(***************************************************************************)
(* System boxes.  The state of a system sensor is a record: a number n (a  *)
(* numeric string of the host), a text s that is no number, or null.       *)
(***************************************************************************)
NumberState(n) == [kind |-> "number", n |-> n, s |-> ""]

TextState(s) == [kind |-> "text", n |-> 0, s |-> s]

\* the value null of makeBox
NoValue == "(null)"

\* _formatTime(s) of s = Number(state); "-" stands for the dash of the code
formatTime(state) ==
  IF state.kind # "number" \/ state.n = 0 THEN "-"
  ELSE LET sec == state.n
           h == sec \div 3600
           d == h \div 24
       IN  IF d > 0 THEN ToString(d) \o "d " \o ToString(h % 24) \o "h"
           ELSE IF h > 0 THEN ToString(h) \o "h " \o ToString((sec % 3600) \div 60) \o "m"
           ELSE ToString(sec \div 60) \o "m"

\* Math.round(state) + "%", the state in tenths of a percent
percentOf(state) ==
  IF state.kind = "number" THEN ToString(Round(state.n, 10)) \o "%" ELSE "NaN%"

\* `${state}`: the state as text
stateText(state) == IF state.kind = "number" THEN ToString(state.n) ELSE state.s

\* getEntity(overrideKey, fallbackEntity) on the auto-detected key
getEntity(config, hass, e, overrideKey, fallbackKey) ==
  LET overrideId == IF overrideKey \in DOMAIN config.system_box_overrides
                      THEN config.system_box_overrides[overrideKey] ELSE <<>>
  IN  IF overrideId # <<>> /\ HasState(hass, overrideId) THEN StateOf(hass, overrideId)
      ELSE IF fallbackKey \in DOMAIN e THEN e[fallbackKey]
      ELSE Null

\* the boxes of the system grid: key of system_boxes, key of the
\* auto-detected entity, label
SystemBoxes ==
  << [box |-> "cpu", entity |-> "cpu", label |-> "CPU"],
     [box |-> "memory", entity |-> "memory", label |-> "Memory"],
     [box |-> "uptime", entity |-> "uptime", label |-> "Up-time"],
     [box |-> "hostname", entity |-> "hostname", label |-> "Host"],
     [box |-> "poe", entity |-> "total_poe", label |-> "PoE Total"],
     [box |-> "firmware", entity |-> "firmware", label |-> "Firmware"],
     [box |-> "custom", entity |-> "custom_value", label |-> "" ] >>

\* the first argument of makeBox for a box
boxValue(b, ent) ==
  IF ent = Null \/ ent.state.kind = "null" THEN NoValue
  ELSE CASE b.box \in {"cpu", "memory"} -> percentOf(ent.state)
         [] b.box = "uptime" -> formatTime(ent.state)
         [] b.box = "poe" -> stateText(ent.state) \o " W"
         [] OTHER -> stateText(ent.state)

\* makeBox(value, label): the box, <<>> for ''
makeBox(b, value, label) ==
  IF value = NoValue \/ value = "unknown" THEN <<>>
  ELSE <<[box |-> b.box, value |-> value, label |-> label]>>

RECURSIVE systemBoxesFrom(_, _, _, _)
systemBoxesFrom(config, hass, e, k) ==
  IF k > Len(SystemBoxes) THEN <<>>
  ELSE LET b == SystemBoxes[k]
           on == b.box \in DOMAIN config.system_boxes /\ config.system_boxes[b.box]
       IN  (IF on
              THEN makeBox(b, boxValue(b, getEntity(config, hass, e, b.box, b.entity)),
                           IF b.box = "custom" THEN config.custom_text ELSE b.label)
              ELSE <<>>)
           \o systemBoxesFrom(config, hass, e, k + 1)

\* the innerHTML of #system
systemOf(config, hass, e) ==
  IF config.show_system_info # FALSE THEN systemBoxesFrom(config, hass, e, 1) ELSE <<>>

\* the shadow DOM before _createSkeleton and right after it
NoDom ==
  [ skeleton |-> FALSE, header |-> "none", bandwidth |-> NoBandwidth, system |-> <<>>,
    gauge |-> HiddenGauge,
    staggered |-> FALSE, copper |-> <<>>, top |-> <<>>, bottom |-> <<>>,
    sfp |-> <<>>, threw |-> FALSE ]

createSkeleton == [NoDom EXCEPT !.skeleton = TRUE, !.header = "intact"]

\* _render(): the DOM it leaves and the maxTraffic it computed
render(config, hass, e, d, mt, now) ==
  IF hass = Null \/ config = Null THEN [dom |-> [d EXCEPT !.threw = FALSE], maxTraffic |-> mt]
  ELSE IF DOMAIN e = {}
    THEN [dom |-> [d EXCEPT !.header = "nodata", !.threw = FALSE], maxTraffic |-> mt]
  ELSE IF d.header # "intact"
    \* getElementById("title") is null: the assignment of textContent throws
    THEN [dom |-> [d EXCEPT !.threw = TRUE], maxTraffic |-> mt]
  ELSE
    LET allPorts == allPortsOf(config, e)
        maxTraffic == maxTrafficOf(allPorts)
        visiblePorts == visiblePortsOf(config, allPorts, now)
        sfpStart == config.sfp_start_port
        copperPorts == Filter(visiblePorts,
                         {visiblePorts[k].i : k \in {j \in 1..Len(visiblePorts) :
                                                       visiblePorts[j].i < sfpStart}})
        sfpPorts == Filter(visiblePorts,
                      {visiblePorts[k].i : k \in {j \in 1..Len(visiblePorts) :
                                                    visiblePorts[j].i >= sfpStart}})
        layout == IF config.layout_mode = "" THEN "linear" ELSE config.layout_mode
        copperLayout == rearrange(layout, copperPorts)
        \* the row in which the render throws, if any
        threwSingle == RowThrows(copperLayout.single)
        threwTop == RowThrows(copperLayout.top)
        threwBottom == ~threwTop /\ RowThrows(copperLayout.bottom)
        threwCopper == threwSingle \/ threwTop \/ threwBottom
        threwSfp == ~threwCopper /\ RowThrows(sfpPorts)
    IN  [ dom |->
            [ skeleton |-> TRUE,
              header |-> "intact",
              bandwidth |-> IF "bandwidth" \in DOMAIN e THEN bandwidthOf(e["bandwidth"])
                            ELSE NoBandwidth,
              system |-> systemOf(config, hass, e),
              gauge |-> gaugeOf(config, e, d),
              staggered |-> layout # "linear",
              copper |-> renderPortRow(config, maxTraffic, copperLayout.single, now),
              top |-> renderPortRow(config, maxTraffic, copperLayout.top, now),
              bottom |-> IF threwTop THEN <<>>
                         ELSE renderPortRow(config, maxTraffic, copperLayout.bottom, now),
              sfp |-> IF threwCopper THEN <<>>
                      ELSE renderPortRow(config, maxTraffic, sfpPorts, now),
              threw |-> threwCopper \/ threwSfp ],
          maxTraffic |-> maxTraffic ]

(***************************************************************************)
(* The legacy card: _render of www/community/switch-port-card-pro.         *)
(***************************************************************************)
\* x.toFixed(0) of n / d: the nearest integer of the magnitude, signed
Fixed0(n, d) ==
  IF n < 0 THEN "-" \o ToString(Round(-n, d)) ELSE ToString(Round(n, d))

LegacyDefaultConfig ==
  [ device |-> <<>>, entity |-> <<>>, total_ports |-> 8, sfp_start_port |-> 9,
    show_live_traffic |-> FALSE, show_total_bandwidth |-> TRUE, max_bandwidth_gbps |-> 100 ]

LegacyFormatTraffic(bps) ==
  IF bps >= 1000 * PerMbit THEN Fixed1(Round(bps, PerGbit \div 10)) \o "G"
  ELSE IF bps >= PerMbit THEN Fixed1(Round(bps, PerMbit \div 10)) \o "M"
  ELSE Fixed0(bps, PerKbit) \o "K"

\* the ladder with > in place of >= at 1000 Mbps
LegacyTierAboveOneGig(speedMbps) ==
  IF speedMbps >= 10000 THEN [speedClass |-> "on-10g", speedText |-> "10G"]
  ELSE IF speedMbps >= 5000 THEN [speedClass |-> "on-5g", speedText |-> "5G"]
  ELSE IF speedMbps >= 2500 THEN [speedClass |-> "on-2_5g", speedText |-> "2.5G"]
  ELSE IF speedMbps > 1000 THEN [speedClass |-> "on-1g", speedText |-> "1G"]
  ELSE IF speedMbps >= 100 THEN [speedClass |-> "on-100m", speedText |-> "100M"]
  ELSE IF speedMbps >= 10 THEN [speedClass |-> "on-10m", speedText |-> "10M"]
  ELSE [speedClass |-> "off", speedText |-> ToString(speedMbps) \o "M"]

\* the ladder of a port that is on with speedMbps > 0; the class stays "off"
\* below 10 Mbps
LegacyTier(speedMbps) ==
  IF speedMbps >= 10000 THEN [speedClass |-> "on-10g", speedText |-> "10G"]
  ELSE IF speedMbps >= 5000 THEN [speedClass |-> "on-5g", speedText |-> "5G"]
  ELSE IF speedMbps >= 2500 THEN [speedClass |-> "on-2_5g", speedText |-> "2.5G"]
  ELSE IF speedMbps >= 1000 THEN [speedClass |-> "on-1g", speedText |-> "1G"]
  ELSE IF speedMbps >= 100 THEN [speedClass |-> "on-100m", speedText |-> "100M"]
  ELSE IF speedMbps >= 10 THEN [speedClass |-> "on-10m", speedText |-> "10M"]
  ELSE [speedClass |-> "off", speedText |-> ToString(speedMbps) \o "M"]

\* the guard without the test of isOn
LegacySpeedIgnoringState(isOn, speedMbps, rxBps, txBps) ==
  IF speedMbps > 0
    THEN LET tier == LegacyTier(speedMbps)
         IN  [ speedClass |-> tier.speedClass, speedText |-> tier.speedText,
               direction |-> IF 5 * rxBps > 9 * txBps THEN "Down"
                             ELSE IF 5 * txBps > 9 * rxBps THEN "Up" ELSE "" ]
    ELSE [speedClass |-> "off", speedText |-> "OFF", direction |-> ""]

\* speed class, speed text and direction of one port
LegacySpeed(isOn, speedMbps, rxBps, txBps) ==
  IF isOn /\ speedMbps > 0
    THEN LET tier == LegacyTier(speedMbps)
         IN  [ speedClass |-> tier.speedClass, speedText |-> tier.speedText,
               direction |-> IF 5 * rxBps > 9 * txBps THEN "Down"
                             ELSE IF 5 * txBps > 9 * rxBps THEN "Up" ELSE "" ]
    ELSE [speedClass |-> "off", speedText |-> "OFF", direction |-> ""]

\* the body of the port loop: the tile of port i
LegacyPortTile(config, i, ent) ==
  LET isOn == ent.state = "on"
      speedMbps == speedMbpsOf(ent)
      rxBps == IF config.show_live_traffic THEN ent.attributes.rx_bps_live
               ELSE ent.attributes.rx_bps
      txBps == IF config.show_live_traffic THEN ent.attributes.tx_bps_live
               ELSE ent.attributes.tx_bps
      speed == LegacySpeed(isOn, speedMbps, rxBps, txBps)
  IN  [ i |-> i,
        isOn |-> isOn,
        speedClass |-> speed.speedClass,
        className |-> {"port", speed.speedClass}
                        \cup (IF i >= config.sfp_start_port THEN {"sfp"} ELSE {}),
        speedText |-> speed.speedText,
        direction |-> speed.direction,
        \* liveHTML: "" without show_live_traffic, "&nbsp;" for an idle port
        liveRx |-> IF ~config.show_live_traffic THEN ""
                   ELSE IF rxBps > PerKbit \/ txBps > PerKbit
                     THEN LegacyFormatTraffic(rxBps) ELSE "&nbsp;",
        liveTx |-> IF ~config.show_live_traffic THEN ""
                   ELSE IF rxBps > PerKbit \/ txBps > PerKbit
                     THEN LegacyFormatTraffic(txBps) ELSE "&nbsp;",
        rxBps |-> rxBps,
        txBps |-> txBps ]

\* the legacy normalisation with >= 1000 in place of > 1000
LegacyBandwidthFromThousand(bw) ==
  LET val == bw.state
      u == toLowerCase(bw.attributes.unit_of_measurement)
  IN  IF includes(u, MbitPat) /\ val >= 1000
        THEN [num |-> val, den |-> 1000, unit |-> "Mbps"]
      ELSE IF includes(u, BitPerSecPat) /\ ~includes(u, MbitPat)
                /\ ~includes(u, KbitPat) /\ ~includes(u, GbitPat)
        THEN [num |-> val, den |-> 1000000, unit |-> "Mbps"]
      ELSE IF includes(u, KbitPat)
        THEN [num |-> val, den |-> 1000, unit |-> "Mbps"]
      ELSE IF includes(u, GbitPat)
        THEN [num |-> val * 1000, den |-> 1, unit |-> "Mbps"]
      ELSE [num |-> val, den |-> 1, unit |-> "Mbps"]

\* header bandwidth of the legacy card: always a text in Mbps
LegacyBandwidthOf(bw) ==
  LET val == bw.state
      u == toLowerCase(bw.attributes.unit_of_measurement)
  IN  IF includes(u, MbitPat) /\ val > 1000
        THEN [num |-> val, den |-> 1000, unit |-> "Mbps"]
      ELSE IF includes(u, BitPerSecPat) /\ ~includes(u, MbitPat)
                /\ ~includes(u, KbitPat) /\ ~includes(u, GbitPat)
        THEN [num |-> val, den |-> 1000000, unit |-> "Mbps"]
      ELSE IF includes(u, KbitPat)
        THEN [num |-> val, den |-> 1000, unit |-> "Mbps"]
      ELSE IF includes(u, GbitPat)
        THEN [num |-> val * 1000, den |-> 1, unit |-> "Mbps"]
      ELSE [num |-> val, den |-> 1, unit |-> "Mbps"]

\* the gauge of the legacy card
LegacyGaugeOf(config, e, d) ==
  IF config.show_total_bandwidth # FALSE /\ "bandwidth" \in DOMAIN e
    THEN [display |-> "block", pct |-> pctOf(config, LegacyBandwidthOf(e["bandwidth"]))]
    ELSE [display |-> "none", pct |-> d.gauge.pct]

LegacyNoDom ==
  [ skeleton |-> FALSE, header |-> "none", bandwidth |-> NoBandwidth,
    gauge |-> HiddenGauge, copper |-> <<>>, sfp |-> <<>>, threw |-> FALSE ]

LegacyCreateSkeleton == [LegacyNoDom EXCEPT !.skeleton = TRUE, !.header = "intact"]

LegacyRender(config, hass, e, d) ==
  IF hass = Null \/ config = Null THEN [d EXCEPT !.threw = FALSE]
  ELSE IF DOMAIN e = {} THEN [d EXCEPT !.header = "nodata", !.threw = FALSE]
  ELSE IF d.header # "intact" THEN [d EXCEPT !.threw = TRUE]
  ELSE
    LET present == {i \in 1..config.total_ports : PortKey(i) \in DOMAIN e}
        copperSeq == Ascending({i \in present : i < config.sfp_start_port})
        sfpSeq == Ascending({i \in present : i >= config.sfp_start_port})
    IN  [ skeleton |-> TRUE,
          header |-> "intact",
          bandwidth |-> IF "bandwidth" \in DOMAIN e THEN LegacyBandwidthOf(e["bandwidth"])
                        ELSE NoBandwidth,
          gauge |-> LegacyGaugeOf(config, e, d),
          copper |-> [k \in 1..Len(copperSeq) |->
                       LegacyPortTile(config, copperSeq[k], e[PortKey(copperSeq[k])])],
          sfp |-> [k \in 1..Len(sfpSeq) |->
                    LegacyPortTile(config, sfpSeq[k], e[PortKey(sfpSeq[k])])],
          threw |-> FALSE ]

(***************************************************************************)
(* The host: entity ids and the entities that the host can report.         *)
(***************************************************************************)
Kbit(n) == n * PerKbit
Mbit(n) == n * PerMbit

Sw1 == <<"s", "w", "1">>

PortId(device, i) == device \o PortPat \o DigitsOf(i) \o StatusPat

BandwidthId(device) == device \o TotalBandwidthPat

PortEntity(id, state, speed, rxLive, txLive, rx, tx, lastChanged) ==
  [ entity_id |-> id,
    state |-> state,
    attributes |-> [ speed_bps |-> speed, rx_bps_live |-> rxLive, tx_bps_live |-> txLive,
                     rx_bps |-> rx, tx_bps |-> tx ],
    text |-> EmptyObject,
    last_changed |-> lastChanged ]

BandwidthEntity(id, value, unit) ==
  [ entity_id |-> id, state |-> value, attributes |-> [unit_of_measurement |-> unit] ]

\* the states a port entity takes in the life of the card (Spec): up with
\* 10 Mbit/s of traffic, or down since time 0 with a stale 20 Mbit/s
PortEntities(i) ==
  { PortEntity(PortId(Sw1, i), "on", Mbit(1000), Mbit(10), 0, 0, 0, 0),
    PortEntity(PortId(Sw1, i), "off", Mbit(1000), Mbit(20), 0, 0, 0, 0) }

HostEntities == UNION {PortEntities(i) : i \in 1..NumPorts}

HostIds == {ent.entity_id : ent \in HostEntities}

\* the hass object after the host stored ent: replaced in place or appended
PutState(h, ent) ==
  IF HasState(h, ent.entity_id)
    THEN [states |-> [k \in 1..Len(h.states) |->
                        IF h.states[k].entity_id = ent.entity_id THEN ent ELSE h.states[k]]]
    ELSE [states |-> Append(h.states, ent)]

RECURSIVE Without(_, _)
Without(states, id) ==
  IF Len(states) = 0 THEN <<>>
  ELSE IF Head(states).entity_id = id THEN Without(Tail(states), id)
       ELSE <<Head(states)>> \o Without(Tail(states), id)

RemoveState(h, id) == [states |-> Without(h.states, id)]

\* the configurations that setConfig receives in the life of the card (Spec)
ColorSchemes == {"speed", "heatmap", "vlan", "actual_speed"}

UserConfigs ==
  { [DEFAULT_CONFIG EXCEPT !.device = Sw1, !.hide_unused_port = h,
                           !.hide_unused_port_hours = 1] : h \in BOOLEAN }

(***************************************************************************)
(* State.                                                                  *)
(***************************************************************************)
VARIABLES
  now,              \* Date.now() / 1000
  host,             \* the hass object that the host holds
  config,           \* this._config of the current card
  hass,             \* this._hass
  entities,         \* this._entities
  lastHass,         \* this._lastHass
  dom,              \* the shadow DOM of the current card
  maxTraffic,       \* const maxTraffic of the last _render that computed it
  dispatched,       \* the events that the last handler of the card dispatched
  clickRun,         \* history: the clicks on the scheme button since setConfig
  legacyConfig,     \* this._config of the legacy card
  legacyHass,       \* this._hass
  legacyEntities,   \* this._entities
  legacyLastHass,   \* this._lastHass
  legacyDom         \* the shadow DOM of the legacy card

cardVars == <<config, hass, entities, lastHass, dom, maxTraffic, dispatched, clickRun>>
legacyVars == <<legacyConfig, legacyHass, legacyEntities, legacyLastHass, legacyDom>>
vars == <<now, host, cardVars, legacyVars>>

NoMaxTraffic == [num |-> 0, den |-> 0]

\* no click yet: the config before the first click, the number of clicks and
\* the number of events that they dispatched
NoClicks == [start |-> Null, count |-> 0, events |-> 0]

\* both cards right after construction
Constructed ==
  /\ config = Null
  /\ hass = Null
  /\ entities = Null
  /\ lastHass = Null
  /\ dom = NoDom
  /\ maxTraffic = NoMaxTraffic
  /\ dispatched = <<>>
  /\ clickRun = NoClicks
  /\ legacyConfig = Null
  /\ legacyHass = Null
  /\ legacyEntities = Null
  /\ legacyLastHass = Null
  /\ legacyDom = LegacyNoDom

Init ==
  /\ now = 0
  /\ host = [states |-> <<>>]
  /\ Constructed

(***************************************************************************)
(* Operations of the current card.                                         *)
(***************************************************************************)
\* setConfig(config): the defaults overridden by the user's keys
SetConfig(c) ==
  /\ config' = c
  /\ dispatched' = <<>>
  /\ clickRun' = NoClicks
  /\ UNCHANGED <<now, host, hass, entities, lastHass, dom, maxTraffic, legacyVars>>

\* set hass(h)
HassSetter(h) ==
  /\ hass' = h
  /\ IF config = Null
       THEN UNCHANGED <<entities, lastHass, dom, maxTraffic>>
       ELSE LET collect == entities = Null \/ lastHass # h
                e == IF collect THEN collectEntities(config, h) ELSE entities
                d == IF dom.skeleton THEN dom ELSE createSkeleton
                r == render(config, h, e, d, maxTraffic, now)
            IN  /\ entities' = e
                /\ lastHass' = IF collect THEN h ELSE lastHass
                /\ dom' = r.dom
                /\ maxTraffic' = r.maxTraffic
  /\ dispatched' = <<>>
  /\ UNCHANGED <<config, clickRun, legacyVars>>

\* the host assigns the hass object it holds
SetHass ==
  /\ HassSetter(host)
  /\ UNCHANGED <<now, host>>

\* an entity changes: the host builds a new hass object and assigns it
StateChanged(ent) ==
  /\ PutState(host, ent) # host
  /\ host' = PutState(host, ent)
  /\ HassSetter(host')
  /\ UNCHANGED now

StateRemoved(id) ==
  /\ HasState(host, id)
  /\ host' = RemoveState(host, id)
  /\ HassSetter(host')
  /\ UNCHANGED now

\* const schemes of _cycleColorScheme
schemes == <<"speed", "heatmap", "vlan", "actual_speed">>

\* schemes.indexOf(current), counted from 0
schemeIndexOf(current) ==
  IF \E k \in DOMAIN schemes : schemes[k] = current
    THEN (CHOOSE k \in DOMAIN schemes : schemes[k] = current) - 1
    ELSE -1

\* the next scheme without the wrap from the last scheme to the first
nextSchemeNoWrap(color_scheme) ==
  LET current == IF color_scheme = "" THEN "speed" ELSE color_scheme
      currentIndex == schemeIndexOf(current)
      nextIndex == IF currentIndex = -1 THEN 0
                   ELSE IF currentIndex + 1 < Len(schemes) THEN currentIndex + 1
                   ELSE currentIndex
  IN  schemes[nextIndex + 1]

\* nextScheme of _cycleColorScheme
nextSchemeOf(color_scheme) ==
  LET current == IF color_scheme = "" THEN "speed" ELSE color_scheme
      currentIndex == schemeIndexOf(current)
      nextIndex == (IF currentIndex = -1 THEN 0 ELSE currentIndex + 1) % Len(schemes)
  IN  schemes[nextIndex + 1]

\* new CustomEvent("config-changed", {detail: {config}, bubbles, composed})
ConfigChanged(c) ==
  [type |-> "config-changed", detail |-> [config |-> c], bubbles |-> TRUE, composed |-> TRUE]

\* _cycleColorScheme(): the click on the scheme button
CycleColorScheme ==
  /\ dom.skeleton /\ dom.header = "intact"
  /\ clickRun.count < MaxClicks
  /\ LET newConfig == [config EXCEPT !.color_scheme = nextSchemeOf(config.color_scheme)]
         r == render(newConfig, hass, entities, dom, maxTraffic, now)
     IN  /\ config' = newConfig
         /\ dispatched' = <<ConfigChanged(newConfig)>>
         /\ clickRun' = [start |-> IF clickRun.count = 0 THEN config ELSE clickRun.start,
                         count |-> clickRun.count + 1,
                         events |-> clickRun.events + Len(dispatched')]
         /\ dom' = r.dom
         /\ maxTraffic' = r.maxTraffic
  /\ UNCHANGED <<now, host, hass, entities, lastHass, legacyVars>>

\* time passes
Tick ==
  /\ now < MaxNow * 3600
  /\ now' = now + 3600
  /\ UNCHANGED <<host, cardVars, legacyVars>>

(***************************************************************************)
(* Operations of the legacy card.                                          *)
(***************************************************************************)
\* set hass(h)
LegacyHassSetter(h) ==
  LET c == IF legacyConfig = Null THEN LegacyDefaultConfig ELSE legacyConfig
      collect == legacyEntities = Null \/ legacyLastHass # h
      e == IF collect THEN collectEntities(c, h) ELSE legacyEntities
      d == IF legacyDom.skeleton THEN legacyDom ELSE LegacyCreateSkeleton
  IN  /\ legacyHass' = h
      /\ legacyConfig' = c
      /\ legacyEntities' = e
      /\ legacyLastHass' = IF collect THEN h ELSE legacyLastHass
      /\ legacyDom' = LegacyRender(c, h, e, d)

LegacySetHass ==
  /\ LegacyHassSetter(host)
  /\ UNCHANGED <<now, host, cardVars>>

(***************************************************************************)
(* The life of the current card.                                           *)
(***************************************************************************)
Next ==
  \/ \E c \in UserConfigs : SetConfig(c)
  \/ SetHass
  \/ \E ent \in HostEntities : StateChanged(ent)
  \/ \E id \in HostIds : StateRemoved(id)
  \/ CycleColorScheme
  \/ Tick

Spec == Init /\ [][Next]_vars

(***************************************************************************)
(* Classification of one batch: both cards are configured, the host holds  *)
(* a batch of port entities, and each card is assigned it.                 *)
(***************************************************************************)
\* link speeds around every threshold of the speed ladder, and negative ones
SpeedValues ==
  { -Mbit(500), -Kbit(400), 0, Kbit(400), Kbit(500), Mbit(1), Mbit(9), Kbit(9499), Kbit(9500), Mbit(10),
    Mbit(99), Kbit(99500), Mbit(100), Mbit(999), Mbit(1000), Mbit(2499), Mbit(2500),
    Mbit(4999), Mbit(5000), Mbit(9999), Mbit(10000), Mbit(40000) }

\* traffic rates around every threshold of formatTraffic and of the ratio 1.8
TrafficValues ==
  { 0, 4, 5, 15, Kbit(100), Kbit(110), Kbit(180), Kbit(181), Kbit(999) + 4,
    Kbit(999) + 5, Mbit(1), Kbit(1500), Kbit(999500), Mbit(1000), Mbit(2500) }

\* traffic rates on and just above every tenth of 10 Mbit/s
HeatValues ==
  {Mbit(k) : k \in 0..10} \cup {Mbit(k) + 1 : k \in 0..9} \cup {Mbit(20)}

\* traffic rates around the two lowest thresholds of the actual_speed ladder
LowValues == {0, 4, Kbit(1), Kbit(1) + 1, 15, Kbit(99), Kbit(100)}

PortStates == {"on", "off"}

ClassifyHosts ==
  \* one port, every link speed
  { [states |-> <<PortEntity(PortId(Sw1, 1), st, sp, Kbit(1500), Kbit(100), 0, 0, 0)>>] :
      st \in PortStates, sp \in SpeedValues }
  \cup
  \* one port, every pair of traffic rates
  { [states |-> <<PortEntity(PortId(Sw1, 1), st, Mbit(1000), rx, tx, tx, rx, 0)>>] :
      st \in PortStates, rx \in TrafficValues, tx \in TrafficValues }
  \cup
  \* two ports, the second one up or down with 10 Mbit/s
  { [states |-> <<PortEntity(PortId(Sw1, 1), "on", Mbit(1000), rx, 0, 0, 0, 0),
                  PortEntity(PortId(Sw1, 2), st, Mbit(1000), Mbit(4), Mbit(6), 0, 0, 0)>>] :
      st \in PortStates, rx \in HeatValues }
  \cup
  \* two ports that are up, each with a rate around 1 kbit/s and 0.1 Mbit/s
  { [states |-> <<PortEntity(PortId(Sw1, 1), "on", Mbit(1000), rx1, 0, 0, 0, 0),
                  PortEntity(PortId(Sw1, 2), "on", Mbit(100), 0, tx2, 0, 0, 0)>>] :
      rx1 \in LowValues, tx2 \in LowValues }

ClassifyConfigs ==
  { [DEFAULT_CONFIG EXCEPT !.device = Sw1, !.color_scheme = cs] :
      cs \in ColorSchemes \cup {"", "rainbow"} }

LegacyConfigs ==
  { [LegacyDefaultConfig EXCEPT !.device = Sw1, !.show_live_traffic = live] :
      live \in BOOLEAN }

\* setConfig was called on both cards, no hass object was assigned yet
Configured(c, lc) ==
  /\ config = c
  /\ hass = Null
  /\ entities = Null
  /\ lastHass = Null
  /\ dom = NoDom
  /\ maxTraffic = NoMaxTraffic
  /\ dispatched = <<>>
  /\ clickRun = NoClicks
  /\ legacyConfig = lc
  /\ legacyHass = Null
  /\ legacyEntities = Null
  /\ legacyLastHass = Null
  /\ legacyDom = LegacyNoDom

InitClassify ==
  /\ now = 0
  /\ host \in ClassifyHosts
  /\ \E c \in ClassifyConfigs, lc \in LegacyConfigs : Configured(c, lc)

NextAssign == SetHass \/ LegacySetHass

SpecClassify == InitClassify /\ [][NextAssign]_vars

(***************************************************************************)
(* Normalisation of the total bandwidth: the host holds one bandwidth      *)
(* entity and one port.                                                    *)
(***************************************************************************)
BandwidthValues == {0, 1, 2, 500, 999, 1000, 1001, 1500, 2000, 1500000}

UnitLabels ==
  { <<"G", "b", "i", "t", "/", "s">>, <<"M", "b", "i", "t", "/", "s">>,
    <<"M", "B", "i", "t", "/", "s">>, <<"k", "b", "i", "t", "/", "s">>,
    <<"b", "i", "t", "/", "s">>, <<"M", "b", "p", "s">>, <<"B", "/", "s">>, <<>> }

BandwidthHosts ==
  { [states |-> <<BandwidthEntity(BandwidthId(Sw1), v, u),
                  PortEntity(PortId(Sw1, 1), "on", Mbit(1000), 0, 0, 0, 0, 0)>>] :
      v \in BandwidthValues, u \in UnitLabels }

InitBandwidth ==
  /\ now = 0
  /\ host \in BandwidthHosts
  /\ Configured([DEFAULT_CONFIG EXCEPT !.device = Sw1],
                [LegacyDefaultConfig EXCEPT !.device = Sw1])

SpecBandwidth == InitBandwidth /\ [][NextAssign]_vars

(***************************************************************************)
(* Malformed records: a batch of three ports whose ports 1 and 3 are well  *)
(* formed and whose port 2 carries one malformed attribute.                *)
(***************************************************************************)
\* the record with the number or boolean v under the key k
WithNumber(ent, k, v) ==
  [ent EXCEPT !.attributes = [j \in DOMAIN ent.attributes \cup {k} |->
                                IF j = k THEN v ELSE ent.attributes[j]],
              !.text = [j \in DOMAIN ent.text \ {k} |-> ent.text[j]]]

\* the record with the text s under the key k
WithText(ent, k, s) ==
  [ent EXCEPT !.attributes = [j \in DOMAIN ent.attributes \ {k} |-> ent.attributes[j]],
              !.text = [j \in DOMAIN ent.text \cup {k} |-> IF j = k THEN s ELSE ent.text[j]]]

NotANumber == <<"n", "/", "a">>

\* the attributes that hold a number of bit/s
NumericKeys == {"speed_bps", "rx_bps_live", "tx_bps_live", "rx_bps", "tx_bps"}

\* port 2 of the batch, well formed: up at 1 Gbit/s with 4 + 6 Mbit/s
SecondPort(st) == PortEntity(PortId(Sw1, 2), st, Mbit(1000), Mbit(4), Mbit(6), 0, 0, 0)

\* port 2 with one malformed attribute: a negative number, text that is no
\* number, or a number as port name
MalformedPorts ==
  UNION { { WithNumber(SecondPort(st), k, -Mbit(20)), WithText(SecondPort(st), k, NotANumber) } :
            st \in PortStates, k \in {"speed_bps", "rx_bps_live", "tx_bps_live"} }
  \cup { WithNumber(SecondPort(st), "port_name", 42) : st \in PortStates }

MalformedHosts ==
  { [states |-> <<PortEntity(PortId(Sw1, 1), "on", Mbit(100), rx, Mbit(1), 0, 0, 0),
                  bad,
                  PortEntity(PortId(Sw1, 3), "on", Mbit(1000), Mbit(5), rx, 0, 0, 0)>>] :
      rx \in {0, Mbit(2), Mbit(10)}, bad \in MalformedPorts }

InitMalformed ==
  /\ now = 0
  /\ host \in MalformedHosts
  /\ \E c \in ClassifyConfigs : Configured(c, LegacyDefaultConfig)

SpecMalformed == InitMalformed /\ [][SetHass]_vars

(***************************************************************************)
(* VLANs: a batch of two ports, each with or without a VLAN id.            *)
(***************************************************************************)
\* VLAN ids on both sides of the multiples of the palette's length; 0 stands
\* for a record without vlan_id
VlanValues == {0, 1, 14, 19, 20, 21, 34, 39, 40, 41, 4094}

VlanPort(i, st, vlan) ==
  LET ent == PortEntity(PortId(Sw1, i), st, Mbit(1000), Mbit(4), Mbit(6), 0, 0, 0)
  IN  IF vlan = 0 THEN ent ELSE WithNumber(ent, "vlan_id", vlan)

VlanHosts ==
  { [states |-> <<VlanPort(1, "on", v1), VlanPort(2, st, v2)>>] :
      st \in PortStates, v1 \in VlanValues, v2 \in VlanValues }

InitVlan ==
  /\ now = 0
  /\ host \in VlanHosts
  /\ \E c \in ClassifyConfigs : Configured(c, LegacyDefaultConfig)

SpecVlan == InitVlan /\ [][SetHass]_vars

(***************************************************************************)
(* Rows: one port with or without its optional attributes, rendered with   *)
(* every row key.                                                          *)
(***************************************************************************)
\* the values of config.row2: every key of renderRowContent, spellings of
\* "none", an empty key and an unknown key
Row2Keys ==
  { "rx_tx_live", "rx_tx", "speed", "port_custom", "custom", "name", "Name",
    "interface", "vlan_id", "vlan", " vlan", "none", "None", " none ", "", "bogus" }

\* the values of config.row3
Row3Keys == {"speed", "name", "interface", "custom", "vlan", "none", "None", " none ", "", "bogus"}

Uplink == <<"U", "p", "l", "i", "n", "k">>

Blank == <<" ", " ">>

\* a name of 14 characters, longer than every maxChars of truncate
UplinkToCore == Uplink \o <<" ", "t", "o", " ", "c", "o", "r", "e">>

Eth0 == <<"e", "t", "h", "0">>

\* a port record with the optional attributes that are given; <<>> and 0
\* stand for an attribute that the record does not have
OptionalPort(st, name, interface, custom, vlan) ==
  LET e0 == PortEntity(PortId(Sw1, 1), st, Mbit(1000), Mbit(4), Mbit(6), 0, 0, 0)
      e1 == IF name = <<>> THEN e0 ELSE WithText(e0, "port_name", name)
      e2 == IF interface = <<>> THEN e1 ELSE WithText(e1, "interface", interface)
      e3 == IF custom = <<>> THEN e2 ELSE WithText(e2, "custom", custom)
  IN  IF vlan = 0 THEN e3 ELSE WithNumber(e3, "vlan_id", vlan)

RowHosts ==
  { [states |-> <<OptionalPort(st, name, interface, custom, vlan)>>] :
      st \in PortStates, name \in {<<>>, Blank, Uplink, UplinkToCore},
      interface \in {<<>>, Eth0}, custom \in {<<>>, UplinkToCore}, vlan \in {0, 10} }

RowConfigs ==
  { [DEFAULT_CONFIG EXCEPT !.device = Sw1, !.row2 = r2, !.row3 = r3, !.truncate_text = tr] :
      r2 \in Row2Keys, r3 \in Row3Keys, tr \in BOOLEAN }

InitRows ==
  /\ now = 0
  /\ host \in RowHosts
  /\ \E c \in RowConfigs : Configured(c, LegacyDefaultConfig)

SpecRows == InitRows /\ [][SetHass]_vars

(***************************************************************************)
(* The scheme button: the card is configured, rendered and clicked.        *)
(***************************************************************************)
\* configs with every value of color_scheme: the four schemes, none, and an
\* unrecognised one
CycleConfigs ==
  { [DEFAULT_CONFIG EXCEPT !.device = Sw1, !.color_scheme = cs, !.hide_unused_port = h,
                           !.layout_mode = l] :
      cs \in ColorSchemes \cup {"", "rainbow"}, h \in BOOLEAN, l \in {"linear", "even_top"} }

CycleHost ==
  [states |-> <<PortEntity(PortId(Sw1, 1), "on", Mbit(1000), Mbit(10), 0, 0, 0, 0),
                PortEntity(PortId(Sw1, 2), "off", Mbit(100), 0, 0, 0, 0, 0)>>]

InitCycle ==
  /\ now = 0
  /\ host = CycleHost
  /\ Constructed

NextCycle ==
  \/ \E c \in CycleConfigs : SetConfig(c)
  \/ SetHass
  \/ CycleColorScheme

SpecCycle == InitCycle /\ [][NextCycle]_vars

(***************************************************************************)
(* Layout: batches of up to LayoutPorts ports, up or down for an hour,     *)
(* rendered in every layout mode with and without SFP ports.               *)
(***************************************************************************)
LayoutModes == {"linear", "even_top", "odd_top", "", "zigzag"}

LayoutConfigs ==
  { [DEFAULT_CONFIG EXCEPT !.device = Sw1, !.layout_mode = l, !.sfp_start_port = s,
                           !.hide_unused_port = h, !.hide_unused_port_hours = 1] :
      l \in LayoutModes, s \in {3, 4, 9}, h \in BOOLEAN }

\* the batch with the ports of `up` up and the ports of `down` down
LayoutStates(up, down) ==
  LET seq == Ascending(up \cup down)
  IN  [k \in 1..Len(seq) |->
        PortEntity(PortId(Sw1, seq[k]), IF seq[k] \in up THEN "on" ELSE "off",
                   Mbit(1000), Mbit(seq[k]), 0, 0, 0, 0)]

\* every port is up, down or absent
LayoutHosts ==
  { [states |-> LayoutStates({i \in 1..LayoutPorts : f[i] = "on"},
                             {i \in 1..LayoutPorts : f[i] = "off"})] :
      f \in [1..LayoutPorts -> PortStates \cup {"absent"}] }

InitLayout ==
  /\ now = 3600
  /\ host \in LayoutHosts
  /\ \E c \in LayoutConfigs : Configured(c, LegacyDefaultConfig)

SpecLayout == InitLayout /\ [][SetHass]_vars

(***************************************************************************)
(* Several switches: the host holds entities of the switches sw1 and sw2,  *)
(* and each card is configured with a device, an entity, or neither.       *)
(***************************************************************************)
Sw2 == <<"s", "w", "2">>

\* the entities that the host can hold: port 1 and the bandwidth of each switch
DeviceEntities ==
  << PortEntity(PortId(Sw1, 1), "on", Mbit(1000), Mbit(1), 0, 0, 0, 0),
     BandwidthEntity(BandwidthId(Sw1), 100, <<"M", "b", "i", "t", "/", "s">>),
     PortEntity(PortId(Sw2, 1), "on", Mbit(100), Mbit(2), 0, 0, 0, 0),
     BandwidthEntity(BandwidthId(Sw2), 200, <<"M", "b", "i", "t", "/", "s">>) >>

\* the entries of seq whose index is in S, in the order of seq
RECURSIVE Pick(_, _, _)
Pick(seq, S, k) ==
  IF k > Len(seq) THEN <<>>
  ELSE (IF k \in S THEN <<seq[k]>> ELSE <<>>) \o Pick(seq, S, k + 1)

DeviceHosts == { [states |-> Pick(DeviceEntities, S, 1)] : S \in SUBSET DOMAIN DeviceEntities }

\* the values of config.device and config.entity
DeviceValues == {<<>>, Sw1, Sw1 \o Underscore, Sw2}

EntityValues == {<<>>, BandwidthId(Sw1), BandwidthId(Sw2), PortId(Sw2, 1)}

InitDevices ==
  /\ now = 0
  /\ host \in DeviceHosts
  /\ \E d \in DeviceValues, e \in EntityValues :
       Configured([DEFAULT_CONFIG EXCEPT !.device = d, !.entity = e],
                  [LegacyDefaultConfig EXCEPT !.device = d, !.entity = e])

SpecDevices == InitDevices /\ [][NextAssign]_vars

(***************************************************************************)
(* System boxes: the host holds one port, up to three system sensors of    *)
(* the switch and a sensor outside the device that a box can be pointed    *)
(* at.  CPU states are in tenths of a percent, the uptime in seconds.      *)
(***************************************************************************)
SystemEntity(id, state) == [entity_id |-> id, state |-> state, attributes |-> EmptyObject]

CpuId == Sw1 \o SystemCpuPat

HostnameId == Sw1 \o SystemPat \o HostnamePat

UptimeId == Sw1 \o SystemPat \o UptimePat

\* an id outside the device, and one that no entity has
OverrideId == <<"o", "v", "r">>

MissingId == <<"n", "o", "n", "e">>

CpuStates == {NumberState(425), TextState("unknown")}

HostnameStates == {TextState("core"), TextState("unknown")}

UptimeStates == {NumberState(93784), TextState("unknown")}

OverrideStates == {NumberState(771)}

Optional(id, state) == IF state = Null THEN <<>> ELSE <<SystemEntity(id, state)>>

SystemHosts ==
  { [states |-> <<PortEntity(PortId(Sw1, 1), "on", Mbit(1000), Mbit(1), 0, 0, 0, 0)>>
                \o Optional(CpuId, c) \o Optional(HostnameId, h)
                \o Optional(UptimeId, u) \o Optional(OverrideId, o)] :
      c \in CpuStates \cup {Null}, h \in HostnameStates \cup {Null},
      u \in UptimeStates \cup {Null}, o \in OverrideStates \cup {Null} }

SystemConfigs ==
  { [DEFAULT_CONFIG EXCEPT !.device = Sw1, !.show_system_info = show,
                           !.system_boxes.cpu = cpu,
                           !.system_box_overrides.cpu = id] :
      show \in BOOLEAN, cpu \in BOOLEAN, id \in {<<>>, OverrideId, MissingId} }

InitSystem ==
  /\ now = 0
  /\ host \in SystemHosts
  /\ \E c \in SystemConfigs : Configured(c, LegacyDefaultConfig)

SpecSystem == InitSystem /\ [][SetHass]_vars

(***************************************************************************)
(* Reconfiguration: setConfig and hass assignments in any order, on a host *)
(* that holds the entities of two switches.  setConfig changes `device`    *)
(* and the look of the ports.                                              *)
(***************************************************************************)
DeviceConfigs ==
  { [DEFAULT_CONFIG EXCEPT !.device = d, !.color_scheme = cs] :
      d \in DeviceValues, cs \in {"speed", "vlan"} }

LegacyDeviceConfigs ==
  { [LegacyDefaultConfig EXCEPT !.device = d, !.show_live_traffic = t] :
      d \in DeviceValues, t \in BOOLEAN }

\* setConfig(config) of the legacy card
LegacySetConfig(c) ==
  /\ legacyConfig' = c
  /\ UNCHANGED <<now, host, cardVars, legacyHass, legacyEntities, legacyLastHass, legacyDom>>

InitReconfigure ==
  /\ now = 0
  /\ host \in DeviceHosts
  /\ Constructed

NextReconfigure ==
  \/ \E c \in DeviceConfigs : SetConfig(c)
  \/ SetHass
  \/ \E c \in LegacyDeviceConfigs : LegacySetConfig(c)
  \/ LegacySetHass

SpecReconfigure == InitReconfigure /\ [][NextReconfigure]_vars

(***************************************************************************)
(* The gauge: one bandwidth reading under every unit label, against a      *)
(* maximum of 1 or 100 Gbps or none (0), with the gauge switched on or off.*)
(***************************************************************************)
GaugeValues == {0, 1, 50, 100, 150, 1500, 200000}

GaugeHosts ==
  { [states |-> <<BandwidthEntity(BandwidthId(Sw1), v, u),
                  PortEntity(PortId(Sw1, 1), "on", Mbit(1000), 0, 0, 0, 0, 0)>>] :
      v \in GaugeValues, u \in UnitLabels }

MaxValues == {0, 1, 100}

InitGauge ==
  /\ now = 0
  /\ host \in GaugeHosts
  /\ \E show \in BOOLEAN, max \in MaxValues :
       Configured([DEFAULT_CONFIG EXCEPT !.device = Sw1, !.show_total_bandwidth = show,
                                         !.max_bandwidth_gbps = max],
                  [LegacyDefaultConfig EXCEPT !.device = Sw1, !.show_total_bandwidth = show,
                                              !.max_bandwidth_gbps = max])

SpecGauge == InitGauge /\ [][NextAssign]_vars

(***************************************************************************)
(* Unused ports: two ports, each up or down since the moment 0 or 1,       *)
(* rendered around one and two hours later with a period of 0, 1 or 2      *)
(* hours.                                                                  *)
(***************************************************************************)
HideMoments == {3600, 3601, 7200}

ChangeMoments == {0, 1}

HideHours == {0, 1, 2}

HideHosts ==
  { [states |-> <<PortEntity(PortId(Sw1, 1), s1, Mbit(1000), Mbit(1), 0, 0, 0, t1),
                  PortEntity(PortId(Sw1, 2), s2, Mbit(1000), Mbit(2), 0, 0, 0, t2)>>] :
      s1 \in PortStates, s2 \in PortStates, t1 \in ChangeMoments, t2 \in ChangeMoments }

HideConfigs ==
  { [DEFAULT_CONFIG EXCEPT !.device = Sw1, !.hide_unused_port = h,
                           !.hide_unused_port_hours = n] :
      h \in BOOLEAN, n \in HideHours }

InitHide ==
  /\ now \in HideMoments
  /\ host \in HideHosts
  /\ \E c \in HideConfigs : Configured(c, LegacyDefaultConfig)

SpecHide == InitHide /\ [][SetHass]_vars

(***************************************************************************)
(* Properties.  The tiles that the cards show, the entity a tile was       *)
(* rendered from, and the quantities the statements speak of.              *)
(***************************************************************************)
Tiles == dom.copper \o dom.top \o dom.bottom \o dom.sfp

LegacyTiles == legacyDom.copper \o legacyDom.sfp

EntityOf(t) == entities[PortKey(t.i)]

LegacyEntityOf(t) == legacyEntities[PortKey(t.i)]

SpeedSchemeActive == config.color_scheme \in {"", "speed"}

\* the tiers of the speed ladder: threshold in Mbps and text
Tiers ==
  { [atLeast |-> 10000, text |-> "10G"], [atLeast |-> 5000, text |-> "5G"],
    [atLeast |-> 2500, text |-> "2.5G"], [atLeast |-> 1000, text |-> "1G"],
    [atLeast |-> 100, text |-> "100M"], [atLeast |-> 10, text |-> "10M"] }

\* the whole number of Mbps nearest to a speed, a half counted upwards
NearestMbps(speed) ==
  CHOOSE n \in {speed \div PerMbit, speed \div PerMbit + 1} :
    /\ 2 * n * PerMbit - PerMbit <= 2 * speed
    /\ 2 * speed < 2 * n * PerMbit + PerMbit

\* the text of the highest tier among `met`, the literal {n}M when none is met
HighestTierText(met, n) ==
  IF met = {} THEN ToString(n) \o "M"
  ELSE (CHOOSE x \in met : \A y \in met : y.atLeast <= x.atLeast).text

\* the tier of a speed compared as reported, in bit/s
TierTextOfSpeed(speed) ==
  HighestTierText({x \in Tiers : speed >= x.atLeast * PerMbit}, NearestMbps(speed))

\* the tier of a speed rounded to whole Mbps first
TierTextOfMbps(n) == HighestTierText({x \in Tiers : n >= x.atLeast}, n)

\* C1 as stated: a port that is up with a nonzero speed shows the highest tier
\* whose threshold its speed meets or exceeds, and the literal {n}M when it
\* meets none (the current card: under the speed scheme)
C1_AsStated ==
  /\ \A k \in DOMAIN Tiles :
       LET t == Tiles[k]
           speed == EntityOf(t).attributes.speed_bps
       IN  (SpeedSchemeActive /\ t.isOn /\ speed # 0)
             => t.speedText = TierTextOfSpeed(speed)
  /\ \A k \in DOMAIN LegacyTiles :
       LET t == LegacyTiles[k]
           speed == LegacyEntityOf(t).attributes.speed_bps
       IN  (t.isOn /\ speed # 0) => t.speedText = TierTextOfSpeed(speed)

\* C1, amended: a port that is up and whose speed, rounded to the nearest
\* whole Mbps, is at least 1 shows the highest tier whose threshold the
\* rounded speed meets or exceeds (10000 -> 10G, 5000 -> 5G, 2500 -> 2.5G,
\* 1000 -> 1G, 100 -> 100M, 10 -> 10M), and the literal {n}M for a rounded
\* speed n of 1..9 (the current card: under the speed scheme)
C1_SpeedTier ==
  /\ \A k \in DOMAIN Tiles :
       LET t == Tiles[k]
           n == NearestMbps(EntityOf(t).attributes.speed_bps)
       IN  (SpeedSchemeActive /\ t.isOn /\ n >= 1) => t.speedText = TierTextOfMbps(n)
  /\ \A k \in DOMAIN LegacyTiles :
       LET t == LegacyTiles[k]
           n == NearestMbps(LegacyEntityOf(t).attributes.speed_bps)
       IN  (t.isOn /\ n >= 1) => t.speedText = TierTextOfMbps(n)

\* both cards show a port that is up at 9 Mbit/s
C1_Witness ==
  /\ SpeedSchemeActive
  /\ \E k \in DOMAIN Tiles :
       /\ Tiles[k].isOn
       /\ EntityOf(Tiles[k]).attributes.speed_bps = Mbit(9)
       /\ Tiles[k].speedText = "9M"
  /\ \E k \in DOMAIN LegacyTiles :
       /\ LegacyTiles[k].isOn
       /\ LegacyEntityOf(LegacyTiles[k]).attributes.speed_bps = Mbit(9)
       /\ LegacyTiles[k].speedText = "9M"

\* C2: a port whose status is not up is classified off, under every colour
\* scheme and whatever speed and traffic it reports: its speed class is "off"
\* and its tile carries the style class "off", on both cards
C2_DownIsOff ==
  /\ \A k \in DOMAIN Tiles :
       EntityOf(Tiles[k]).state # "on"
         => /\ Tiles[k].speedClass = "off"
            /\ "off" \in Tiles[k].className
            /\ Tiles[k].className \subseteq {"port", "off", "sfp"}
  /\ \A k \in DOMAIN LegacyTiles :
       LegacyEntityOf(LegacyTiles[k]).state # "on"
         => /\ LegacyTiles[k].speedClass = "off"
            /\ LegacyTiles[k].className \subseteq {"port", "off", "sfp"}
            /\ LegacyTiles[k].speedText = "OFF"

\* both cards show a port that is down and reports 10 Gbit/s and traffic
C2_Witness ==
  /\ \E k \in DOMAIN Tiles :
       /\ EntityOf(Tiles[k]).state = "off"
       /\ EntityOf(Tiles[k]).attributes.speed_bps = Mbit(10000)
       /\ EntityOf(Tiles[k]).attributes.rx_bps_live > 0
       /\ config.color_scheme = "heatmap"
       /\ Tiles[k].speedClass = "off"
  /\ \E k \in DOMAIN LegacyTiles :
       /\ LegacyEntityOf(LegacyTiles[k]).state = "off"
       /\ LegacyEntityOf(LegacyTiles[k]).attributes.speed_bps = Mbit(10000)
       /\ LegacyTiles[k].speedClass = "off"

\* the look of a tile that the statements compare
Look(t) == [speedClass |-> t.speedClass, speedText |-> t.speedText, className |-> t.className]

\* C3 as stated: a port that is up but reports a link speed of 0 is classified
\* OFF: class "off", text "OFF", on both cards
C3_AsStated ==
  /\ \A k \in DOMAIN Tiles :
       (Tiles[k].isOn /\ EntityOf(Tiles[k]).attributes.speed_bps = 0)
         => Tiles[k].speedClass = "off" /\ Tiles[k].speedText = "OFF"
  /\ \A k \in DOMAIN LegacyTiles :
       (LegacyTiles[k].isOn /\ LegacyEntityOf(LegacyTiles[k]).attributes.speed_bps = 0)
         => LegacyTiles[k].speedClass = "off" /\ LegacyTiles[k].speedText = "OFF"

\* C3, amended: on the legacy card a port that is up but reports a link speed
\* that rounds to 0 Mbps is classified OFF (class "off", text "OFF").  The
\* current card never classifies a port that is up as off: under the speed
\* scheme a speed that rounds to 0 Mbps gives the class "on-0m" and the text
\* "0M"
C3_ZeroSpeed ==
  /\ \A k \in DOMAIN LegacyTiles :
       LET t == LegacyTiles[k]
       IN  (t.isOn /\ NearestMbps(LegacyEntityOf(t).attributes.speed_bps) = 0)
             => Look(t) = [speedClass |-> "off", speedText |-> "OFF",
                           className |-> {"port", "off"}]
  /\ \A k \in DOMAIN Tiles :
       LET t == Tiles[k]
       IN  t.isOn =>
             /\ t.speedClass # "off" /\ "off" \notin t.className
             /\ (SpeedSchemeActive /\ NearestMbps(EntityOf(t).attributes.speed_bps) = 0)
                  => t.speedClass = "on-0m" /\ t.speedText = "0M"

\* both cards show a port that is up with the speed 0
C3_Witness ==
  /\ config.color_scheme = "speed"
  /\ \E k \in DOMAIN Tiles :
       /\ Tiles[k].isOn /\ EntityOf(Tiles[k]).attributes.speed_bps = 0
       /\ Tiles[k].speedText = "0M"
  /\ \E k \in DOMAIN LegacyTiles :
       /\ LegacyTiles[k].isOn /\ LegacyEntityOf(LegacyTiles[k]).attributes.speed_bps = 0
       /\ LegacyTiles[k].speedText = "OFF"

\* C4: for a port that is up with rates rx, tx >= 0 the direction is DOWN
\* exactly when rx > 1.8 * tx, UP exactly when tx > 1.8 * rx, and BALANCED
\* otherwise; the two conditions never hold together; a port that is down
\* shows no direction
C4_Direction ==
  \A k \in DOMAIN Tiles :
    LET t == Tiles[k]
        rx == EntityOf(t).attributes.rx_bps_live
        tx == EntityOf(t).attributes.tx_bps_live
        down == 10 * rx > 18 * tx
        up == 10 * tx > 18 * rx
    IN  /\ ~(down /\ up)
        /\ t.isOn => /\ (t.portDirectionDisplay = ArrowDown) = down
                     /\ (t.portDirectionDisplay = ArrowUp) = up
                     /\ (t.portDirectionDisplay = ArrowBoth) = (~down /\ ~up)
        /\ ~t.isOn => t.portDirectionDisplay \notin {ArrowDown, ArrowUp, ArrowBoth}

\* the card shows a port that is up with rx just above 1.8 * tx
C4_Witness ==
  \E k \in DOMAIN Tiles :
    /\ Tiles[k].isOn
    /\ EntityOf(Tiles[k]).attributes.rx_bps_live = Kbit(181)
    /\ EntityOf(Tiles[k]).attributes.tx_bps_live = Kbit(100)
    /\ Tiles[k].portDirectionDisplay = ArrowDown

RECURSIVE GCD(_, _)
GCD(a, b) == IF b = 0 THEN a ELSE GCD(b, a % b)

\* the fraction n/d in lowest terms
Reduce(n, d) == <<n \div GCD(n, d), d \div GCD(n, d)>>

\* the bandwidth that a header shows, in Mbps
InMbps(b) == Reduce(b.num * (IF b.unit = "Gbps" THEN 1000 ELSE 1), b.den)

\* the conversion to Mbps that C5 states for a label without "mbit"
ClaimedMbps(val, label) ==
  LET l == toLowerCase(label)
  IN  IF includes(l, GbitPat) THEN Reduce(val * 1000, 1)
      ELSE IF includes(l, BitPerSecPat) /\ ~includes(l, KbitPat) THEN Reduce(val, 1000000)
      ELSE IF includes(l, KbitPat) THEN Reduce(val, 1000)
      ELSE Reduce(val, 1)

\* C5 as stated: for a label that does not contain "mbit" the header shows the
\* value converted to Mbps: "gbit" multiplies by 1000, a generic "bit/s"
\* divides by 1,000,000, "kbit" divides by 1000, any other label leaves the
\* value unchanged; on both cards
C5_AsStated ==
  /\ dom.bandwidth # NoBandwidth =>
       LET bw == entities["bandwidth"]
       IN  ~includes(toLowerCase(bw.attributes.unit_of_measurement), MbitPat)
             => InMbps(dom.bandwidth) = ClaimedMbps(bw.state, bw.attributes.unit_of_measurement)
  /\ legacyDom.bandwidth # NoBandwidth =>
       LET bw == legacyEntities["bandwidth"]
       IN  ~includes(toLowerCase(bw.attributes.unit_of_measurement), MbitPat)
             => InMbps(legacyDom.bandwidth)
                  = ClaimedMbps(bw.state, bw.attributes.unit_of_measurement)

Shown(b) == Reduce(b.num, b.den)

Nearest(n, d) ==
  CHOOSE k \in {n \div d, n \div d + 1} : 2 * k * d - d <= 2 * n /\ 2 * n < 2 * k * d + d

\* the text that C7 states
ClaimedTraffic(bps) ==
  IF bps = 0 THEN "0K"
  ELSE IF bps >= 1000 * PerMbit THEN ToString(Nearest(bps, PerGbit)) \o "G"
  ELSE IF bps >= PerMbit THEN ToString(Nearest(bps, PerMbit)) \o "M"
  ELSE ToString(Nearest(bps, PerKbit)) \o "K"

\* a number of tenths written with one decimal
OneDecimal(tenths) == ToString(tenths \div 10) \o "." \o ToString(tenths % 10)

\* the text of the legacy card: one decimal for G and M
LegacyClaimedTraffic(bps) ==
  IF bps >= 1000 * PerMbit THEN OneDecimal(Nearest(10 * bps, PerGbit)) \o "G"
  ELSE IF bps >= PerMbit THEN OneDecimal(Nearest(10 * bps, PerMbit)) \o "M"
  ELSE ToString(Nearest(bps, PerKbit)) \o "K"

LegacyLiveShown(t) == legacyConfig.show_live_traffic /\ (t.rxBps > PerKbit \/ t.txBps > PerKbit)

\* the texts of formatTraffic on the current card are as C7 states
CurrentTrafficTexts ==
  \A k \in DOMAIN Tiles :
    LET t == Tiles[k]
        rx == EntityOf(t).attributes.rx_bps_live
        tx == EntityOf(t).attributes.tx_bps_live
    IN  /\ t.row2 = ClaimedTraffic(rx) \o "-" \o ClaimedTraffic(tx)
        /\ (config.color_scheme = "heatmap" /\ t.isOn) => t.speedText = ClaimedTraffic(rx + tx)

\* C7 as stated: formatTraffic(bps) is "0K" for 0, and else the rate in Gbps
\* (from 1000 Mbps), in Mbps (from 1 Mbps) or in kbit/s, rounded to the nearest
\* integer, with the suffix G, M or K; on both cards
C7_AsStated ==
  /\ CurrentTrafficTexts
  /\ \A k \in DOMAIN LegacyTiles :
       LET t == LegacyTiles[k]
       IN  LegacyLiveShown(t) => /\ t.liveRx = ClaimedTraffic(t.rxBps)
                                 /\ t.liveTx = ClaimedTraffic(t.txBps)

\* C7, amended: formatTraffic of the current card is as stated ("0K" for 0,
\* else Gbps, Mbps or kbit/s rounded to the nearest integer: 1,500,000 -> "2M",
\* 2,500,000,000 -> "3G").  formatTraffic of the legacy card keeps one decimal
\* for G and M (1,500,000 -> "1.5M", 2,500,000,000 -> "2.5G") and rounds to an
\* integer only for K
C7_FormatTraffic ==
  /\ CurrentTrafficTexts
  /\ \A k \in DOMAIN LegacyTiles :
       LET t == LegacyTiles[k]
       IN  LegacyLiveShown(t) => /\ t.liveRx = LegacyClaimedTraffic(t.rxBps)
                                 /\ t.liveTx = LegacyClaimedTraffic(t.txBps)

\* both cards show a port with 1,500,000 bit/s and 2,500,000,000 bit/s
C7_Witness ==
  /\ \E k \in DOMAIN Tiles :
       /\ EntityOf(Tiles[k]).attributes.rx_bps_live = Kbit(1500)
       /\ EntityOf(Tiles[k]).attributes.tx_bps_live = Mbit(2500)
       /\ Tiles[k].row2 = "2M-3G"
  /\ \E k \in DOMAIN LegacyTiles :
       /\ legacyConfig.show_live_traffic
       /\ LegacyTiles[k].liveRx = "1.5M"
       /\ LegacyTiles[k].liveTx = "2.5G"

\* the ports of the batch: every port 1..total_ports that has a status entity
BatchPorts == {i \in 1..config.total_ports : PortKey(i) \in DOMAIN entities}

TrafficOf(i) ==
  entities[PortKey(i)].attributes.rx_bps_live + entities[PortKey(i)].attributes.tx_bps_live

\* the maximum of rx+tx over the batch
BatchMax == SetMax({0} \cup {TrafficOf(i) : i \in BatchPorts})

HeatClass(k) == "heatmap-" \o ToString(k)

HeatClasses == {HeatClass(k) : k \in 1..10}

\* C8 as stated: under the heatmap scheme a port that is up and whose rx+tx
\* equals the maximum of the batch is heatmap-10
C8_AsStated ==
  \A k \in DOMAIN Tiles :
    (config.color_scheme = "heatmap" /\ Tiles[k].isOn /\ TrafficOf(Tiles[k].i) = BatchMax)
      => HeatClass(10) \in Tiles[k].className

\* C8, amended: under the heatmap scheme a port that is up and whose rx+tx is
\* positive and equals the maximum of rx+tx over every port of the batch that
\* has a status entity is heatmap-10 (when no port has traffic, every port
\* that is up is heatmap-1)
C8_TopBucket ==
  \A k \in DOMAIN Tiles :
    (config.color_scheme = "heatmap" /\ Tiles[k].isOn)
      => /\ (TrafficOf(Tiles[k].i) = BatchMax /\ BatchMax > 0)
              => Tiles[k].className \cap HeatClasses = {HeatClass(10)}
         /\ BatchMax = 0 => Tiles[k].className \cap HeatClasses = {HeatClass(1)}

\* two ports with 10 Mbit/s each, the first one is heatmap-10
C8_Witness ==
  /\ config.color_scheme = "heatmap"
  /\ BatchPorts = {1, 2}
  /\ TrafficOf(1) = Mbit(10) /\ TrafficOf(2) = Mbit(10)
  /\ \E k \in DOMAIN Tiles :
       Tiles[k].i = 1 /\ Tiles[k].isOn /\ HeatClass(10) \in Tiles[k].className

\* C9: under the heatmap scheme a port that is up carries exactly one of the
\* classes heatmap-1..heatmap-10: with ratio = (rx+tx) / max(trafficMax, 1) it
\* is heatmap-k for the k with (k-1)/10 < ratio <= k/10, heatmap-10 for every
\* ratio > 0.9 and heatmap-1 for every ratio <= 0.1; trafficMax is the
\* maximum over the batch
C9_Bands ==
  \A j \in DOMAIN Tiles :
    (config.color_scheme = "heatmap" /\ Tiles[j].isOn) =>
      \E k \in 1..10 :
        /\ Tiles[j].className \cap HeatClasses = {HeatClass(k)}
        /\ Tiles[j].speedClass = HeatClass(k)
        /\ IF BatchMax >= 1
             THEN /\ k = 10 \/ 10 * TrafficOf(Tiles[j].i) <= k * BatchMax
                  /\ k = 1 \/ 10 * TrafficOf(Tiles[j].i) > (k - 1) * BatchMax
             ELSE k = 1

\* a port whose ratio is exactly 0.9 is heatmap-9
C9_Witness ==
  /\ config.color_scheme = "heatmap"
  /\ BatchMax = Mbit(10)
  /\ \E j \in DOMAIN Tiles :
       /\ Tiles[j].isOn
       /\ TrafficOf(Tiles[j].i) = Mbit(9)
       /\ Tiles[j].speedClass = HeatClass(9)

\* the maximum of rx+tx over the ports that the card shows
VisibleMax == SetMax({0} \cup {Tiles[k].rxBps + Tiles[k].txBps : k \in DOMAIN Tiles})

\* the band of the ratio traffic / max(trafficMax, 1)
BandOf(traffic, trafficMax) ==
  CHOOSE k \in 1..10 :
    IF trafficMax >= 1
      THEN /\ k = 10 \/ 10 * traffic <= k * trafficMax
           /\ k = 1 \/ 10 * traffic > (k - 1) * trafficMax
      ELSE k = 1

\* C10 as stated: the trafficMax that a render classifies with is the maximum
\* of rx+tx over the ports visible in that same render: every tile with a
\* heatmap class carries the band of its rx+tx against that maximum
C10_AsStated ==
  \A j \in DOMAIN Tiles :
    Tiles[j].speedClass \in HeatClasses
      => Tiles[j].speedClass
           = HeatClass(BandOf(Tiles[j].rxBps + Tiles[j].txBps, VisibleMax))

\* the lines of the tooltip of a tile
TitleLines(t) == {t.title[k] : k \in DOMAIN t.title}

\* the maximum of rx+tx over the ports of the batch whose link is up
UpMax ==
  SetMax({0} \cup {TrafficOf(i) : i \in {j \in BatchPorts : entities[PortKey(j)].state = "on"}})

\* C11 as stated: a port whose link is not up has its traffic treated as zero
\* whatever the record reports: its live traffic row and its tooltip show zero
\* traffic, and the trafficMax of the render is the maximum over the ports
\* that are up
C11_AsStated ==
  /\ \A k \in DOMAIN Tiles :
       ~Tiles[k].isOn =>
         /\ config.row2 = "rx_tx_live" => Tiles[k].row2 = "0K-0K"
         /\ "RX: 0.00 Mb/s" \in TitleLines(Tiles[k])
         /\ "TX: 0.00 Mb/s" \in TitleLines(Tiles[k])
  /\ dom.skeleton /\ UpMax >= 1 => maxTraffic = [num |-> UpMax, den |-> 1]

\* a record is malformed when a rate is negative or no number, or when its
\* port name is a number
Malformed(ent) ==
  \/ \E k \in NumericKeys :
       \/ k \in DOMAIN ent.text
       \/ k \in DOMAIN ent.attributes /\ ent.attributes[k] < 0
  \/ "port_name" \in DOMAIN ent.attributes

\* the record with every malformed attribute removed or set to zero
Repaired(ent) ==
  [ent EXCEPT
     !.attributes = [k \in DOMAIN ent.attributes \ {"port_name"} |->
                       IF k \in NumericKeys /\ ent.attributes[k] < 0 THEN 0
                       ELSE ent.attributes[k]],
     !.text = [k \in DOMAIN ent.text \ NumericKeys |-> ent.text[k]]]

RepairedHass(h) == [states |-> [k \in 1..Len(h.states) |-> Repaired(h.states[k])]]

\* the tiles of the render of the same batch with its malformed records repaired
RepairedTiles ==
  LET h == RepairedHass(hass)
      d == render(config, h, collectEntities(config, h), createSkeleton, NoMaxTraffic, now).dom
  IN  d.copper \o d.top \o d.bottom \o d.sfp

\* style class, speed text and direction of a tile
Classification(t) ==
  [className |-> t.className, speedText |-> t.speedText, direction |-> t.portDirectionDisplay]

\* every well-formed port of the batch is shown with the classification it has
\* when the malformed records of the batch are repaired
OthersUnchanged ==
  \A k \in DOMAIN RepairedTiles :
    ~Malformed(EntityOf(RepairedTiles[k])) =>
      \E j \in DOMAIN Tiles :
        /\ Tiles[j].i = RepairedTiles[k].i
        /\ Classification(Tiles[j]) = Classification(RepairedTiles[k])

\* C12 as stated: a malformed port record does not make the render throw and
\* does not change style class, speed text or direction of any other port of
\* the batch, under every color scheme
C12_AsStated ==
  (dom.skeleton /\ entities # Null) => (~dom.threw /\ OthersUnchanged)

\* C13 as stated: a negative link speed is clamped to zero before the
\* classification: a port that is up and reports a negative speed is
\* classified OFF (class "off", text "OFF") on both cards, the current card
\* under the speed scheme, and the render raises no error
C13_AsStated ==
  /\ ~dom.threw
  /\ \A k \in DOMAIN Tiles :
       (SpeedSchemeActive /\ Tiles[k].isOn /\ NumberOf(EntityOf(Tiles[k]), "speed_bps") < 0)
         => Tiles[k].speedClass = "off" /\ Tiles[k].speedText = "OFF"
  /\ \A k \in DOMAIN LegacyTiles :
       (LegacyTiles[k].isOn /\ LegacyEntityOf(LegacyTiles[k]).attributes.speed_bps < 0)
         => LegacyTiles[k].speedClass = "off" /\ LegacyTiles[k].speedText = "OFF"

\* a step in which the card renders
RenderStep ==
  \/ SetHass
  \/ \E ent \in HostEntities : StateChanged(ent)
  \/ \E id \in HostIds : StateRemoved(id)
  \/ CycleColorScheme

\* what a render shows of the ports
PortsOutput(d) ==
  [copper |-> d.copper, top |-> d.top, bottom |-> d.bottom, sfp |-> d.sfp, threw |-> d.threw]

\* the DOM of a card that renders the snapshot h with the config c at the moment t
\* as its first render
FreshDom(c, h, t) ==
  render(c, h, collectEntities(c, h), createSkeleton, NoMaxTraffic, t).dom

\* C14 as stated: rendering is deterministic in its input snapshot: whenever
\* the card renders a snapshot that holds ports, in any order among other
\* renders and at any moment, every port gets the output (visibility, style
\* class, speed text, direction, rows, tooltip) that a first render of the same
\* records with the same config gives at the moment 0
C14_AsStated ==
  [][ (RenderStep /\ config' # Null /\ hass' # Null /\ DOMAIN entities' # {})
        => PortsOutput(dom') = PortsOutput(FreshDom(config', hass', 0)) ]_vars

\* the VLAN id of the record that a tile was rendered from, 0 without one
VlanIdOf(t) ==
  IF "vlan_id" \in DOMAIN EntityOf(t).attributes THEN EntityOf(t).attributes.vlan_id ELSE 0

NeutralColor == "#607d8b"

UpperActualClass(total) ==
  IF total >= 100 * PerMbit THEN "actual-100m"
  ELSE IF total >= 10 * PerMbit THEN "actual-10m"
  ELSE IF total >= PerMbit THEN "actual-1m"
  ELSE "actual-100k"

\* C16 as stated: under the actual_speed scheme a port that is up is classified
\* from rx+tx against the ladder >= 100, >= 10, >= 1, >= 0.1 Mbps, and all the
\* ports below 0.1 Mbps carry one and the same class
C16_AsStated ==
  config.color_scheme = "actual_speed" =>
    /\ \A k \in DOMAIN Tiles :
         (Tiles[k].isOn /\ 10 * TrafficOf(Tiles[k].i) >= PerMbit)
           => Tiles[k].speedClass = UpperActualClass(TrafficOf(Tiles[k].i))
    /\ \A j, k \in DOMAIN Tiles :
         (Tiles[j].isOn /\ Tiles[k].isOn
            /\ 10 * TrafficOf(Tiles[j].i) < PerMbit /\ 10 * TrafficOf(Tiles[k].i) < PerMbit)
           => Tiles[j].speedClass = Tiles[k].speedClass

\* C16, amended: under the actual_speed scheme a port that is up is classified
\* from rx+tx alone, whatever its link speed: actual-100m from 100 Mbps,
\* actual-10m from 10 Mbps, actual-1m from 1 Mbps, actual-100k from 0.1 Mbps;
\* below 0.1 Mbps there are two classes: actual-1k above 0.001 Mbps (1 kbit/s)
\* and actual-off for the rest
C16_ActualSpeed ==
  config.color_scheme = "actual_speed" =>
    \A k \in DOMAIN Tiles :
      Tiles[k].isOn =>
        LET total == TrafficOf(Tiles[k].i)
        IN  Tiles[k].speedClass
              = IF 10 * total >= PerMbit THEN UpperActualClass(total)
                ELSE IF total > PerKbit THEN "actual-1k"
                ELSE "actual-off"

\* two ports that are up below 0.1 Mbps, one with 1.5 kbit/s and one with
\* 1 kbit/s, are classed actual-1k and actual-off
C16_Witness ==
  /\ config.color_scheme = "actual_speed"
  /\ Len(Tiles) = 2
  /\ Tiles[1].isOn /\ TrafficOf(1) = 15 /\ Tiles[1].speedClass = "actual-1k"
  /\ Tiles[2].isOn /\ TrafficOf(2) = Kbit(1) /\ Tiles[2].speedClass = "actual-off"

\* the key of a row in lower case and trimmed
KeyOf(field) == trimOfRow(lowerOfRow(field))

NameKeys == {"name"}
InterfaceKeys == {"interface"}
CustomKeys == {"port_custom", "custom"}
VlanKeys == {"vlan_id", "vlan"}
TrafficKeys == {"rx_tx_live", "rx/tx_live", "live", "rx_tx", "rx/tx", "lifetime", "total"}
KnownKeys ==
  NameKeys \cup InterfaceKeys \cup CustomKeys \cup VlanKeys \cup TrafficKeys \cup {"speed", "none"}

\* the record of a tile lacks the optional field that the key shows
FieldMissing(t, key) ==
  \/ key \in NameKeys /\ "port_name" \notin DOMAIN EntityOf(t).text
  \/ key \in InterfaceKeys /\ "interface" \notin DOMAIN EntityOf(t).text
  \/ key \in CustomKeys /\ "custom" \notin DOMAIN EntityOf(t).text
  \/ key \in VlanKeys /\ "vlan_id" \notin DOMAIN EntityOf(t).attributes

AmendedRow(t, key) ==
  IF key = "none" THEN NoRow
  ELSE IF key \notin KnownKeys THEN Nbsp
  ELSE IF key \in NameKeys /\ trim(TextOf(EntityOf(t), "port_name")) = <<>>
    THEN "Port " \o ToString(t.i)
  ELSE IF FieldMissing(t, key) THEN Nbsp
  ELSE "shown"

UnknownScheme == config.color_scheme \notin ColorSchemes \cup {""}

\* C18: an unknown color_scheme raises no error, and every port that is up
\* falls back to one default tier, the class on-1g with the same speed text,
\* whatever its link speed and its traffic
C18_UnknownScheme ==
  UnknownScheme =>
    /\ ~dom.threw
    /\ \A k \in DOMAIN Tiles :
         Tiles[k].isOn =>
           /\ Tiles[k].speedClass = "on-1g"
           /\ Tiles[k].className = {"port", "on-1g"}
    /\ \A j, k \in DOMAIN Tiles :
         (Tiles[j].isOn /\ Tiles[k].isOn) => Tiles[j].speedText = Tiles[k].speedText

\* under an unknown scheme a port that is up at 10 Mbit/s is shown on-1g
C18_Witness ==
  /\ UnknownScheme
  /\ \E k \in DOMAIN Tiles :
       /\ Tiles[k].isOn
       /\ NumberOf(EntityOf(Tiles[k]), "speed_bps") = Mbit(10)
       /\ Tiles[k].speedClass = "on-1g"

\* the next entry of the cycle speed -> heatmap -> vlan -> actual_speed ->
\* speed; an unset scheme counts as speed, an unrecognised one moves to speed
ClaimedNext(s) ==
  CASE s \in {"", "speed"} -> "heatmap"
    [] s = "heatmap" -> "vlan"
    [] s = "vlan" -> "actual_speed"
    [] OTHER -> "speed"

RECURSIVE ClaimedAfter(_, _)
ClaimedAfter(s, n) == IF n = 0 THEN s ELSE ClaimedNext(ClaimedAfter(s, n - 1))

\* C19: each click on the scheme button moves color_scheme to the next entry
\* of the cycle speed -> heatmap -> vlan -> actual_speed -> speed, an unset
\* scheme counting as speed and an unrecognised one moving to speed, so that
\* four consecutive clicks return to the starting scheme; after any number of
\* clicks color_scheme is one of the four schemes and no other key of the
\* config has changed; each click dispatched exactly one config-changed event,
\* which carries the new config
C19_Cycle ==
  clickRun.count >= 1 =>
    LET start == clickRun.start.color_scheme
    IN  /\ config.color_scheme = ClaimedAfter(start, clickRun.count)
        /\ config.color_scheme \in ColorSchemes
        /\ config = [clickRun.start EXCEPT !.color_scheme = config.color_scheme]
        /\ (clickRun.count = 4 /\ start \in ColorSchemes) => config.color_scheme = start
        /\ (clickRun.count = 4 /\ start = "") => config.color_scheme = "speed"
        /\ clickRun.events = clickRun.count
        /\ dispatched # <<>> => dispatched = <<ConfigChanged(config)>>

\* four clicks from the vlan scheme are back at vlan, and the fourth click
\* dispatched the event with the config just set
C19_Witness ==
  /\ clickRun.count = 4
  /\ clickRun.start.color_scheme = "vlan"
  /\ config.color_scheme = "vlan"
  /\ dispatched = <<ConfigChanged(config)>>

\* the port numbers of a row of tiles
Numbers(row) == [k \in DOMAIN row |-> row[k].i]

NumberSet(row) == {row[k].i : k \in DOMAIN row}

\* the visible ports of the batch: those that are not left out as unused
VisiblePorts == {i \in BatchPorts : ~Hidden(config, entities[PortKey(i)], now)}

VisibleCopper == {i \in VisiblePorts : i < config.sfp_start_port}

VisibleSfp == {i \in VisiblePorts : i >= config.sfp_start_port}

Evens(S) == {i \in S : i % 2 = 0}

Odds(S) == {i \in S : i % 2 = 1}

\* C20: with layout_mode linear the visible copper ports are in one grid in
\* ascending order; with even_top the top row holds exactly the even visible
\* copper ports and the bottom row exactly the odd ones, each ascending; with
\* odd_top the rows are swapped; top and bottom row are disjoint and together
\* hold every visible copper port; the SFP ports are in one ascending row
\* whatever layout_mode is
C20_Layout ==
  (dom.skeleton /\ entities # Null /\ DOMAIN entities # {}) =>
    /\ config.layout_mode = "linear" =>
         /\ Numbers(dom.copper) = Ascending(VisibleCopper)
         /\ dom.top = <<>> /\ dom.bottom = <<>>
    /\ config.layout_mode = "even_top" =>
         /\ Numbers(dom.top) = Ascending(Evens(VisibleCopper))
         /\ Numbers(dom.bottom) = Ascending(Odds(VisibleCopper))
    /\ config.layout_mode = "odd_top" =>
         /\ Numbers(dom.top) = Ascending(Odds(VisibleCopper))
         /\ Numbers(dom.bottom) = Ascending(Evens(VisibleCopper))
    /\ config.layout_mode \in {"even_top", "odd_top"} =>
         /\ dom.copper = <<>>
         /\ NumberSet(dom.top) \cap NumberSet(dom.bottom) = {}
         /\ NumberSet(dom.top) \cup NumberSet(dom.bottom) = VisibleCopper
    /\ Numbers(dom.sfp) = Ascending(VisibleSfp)

\* with even_top and the SFP ports starting at 4, a batch whose ports 1 to 4
\* are visible is laid out as top row 2, bottom row 1 3, SFP row 4
C20_Witness ==
  /\ config.layout_mode = "even_top"
  /\ config.hide_unused_port
  /\ BatchPorts = 1..4
  /\ Numbers(dom.top) = <<2>>
  /\ Numbers(dom.bottom) = <<1, 3>>
  /\ Numbers(dom.sfp) = <<4>>

\* the prefix of the ids of a device: the device followed by '_'
DevicePrefix(device) ==
  IF endsWith(device, Underscore) THEN device ELSE device \o Underscore

\* every entity of the map e has an id that starts with the prefix of the device
AllOfDevice(e, device) ==
  \A key \in DOMAIN e : startsWith(e[key].entity_id, DevicePrefix(device))

\* C21 as stated: when device is configured, every entity that
\* _collectEntities has collected has an id that starts with the device
\* prefix, on both cards: no entity of another switch is collected
C21_AsStated ==
  /\ (config # Null /\ entities # Null /\ config.device # <<>>)
       => AllOfDevice(entities, config.device)
  /\ (legacyConfig # Null /\ legacyEntities # Null /\ legacyConfig.device # <<>>)
       => AllOfDevice(legacyEntities, legacyConfig.device)

\* the entity a box takes its value from: the override entity when its id is
\* set and exists in hass.states, the auto-detected entity otherwise
SourceOf(b) ==
  LET id == config.system_box_overrides[b.box]
  IN  IF id # <<>> /\ HasState(hass, id) THEN StateOf(hass, id)
      ELSE IF b.entity \in DOMAIN entities THEN entities[b.entity]
      ELSE Null

BoxesOf(b) == {k \in 1..Len(dom.system) : dom.system[k].box = b.box}

\* the value of the source is neither null nor 'unknown'
HasValue(b) ==
  /\ SourceOf(b) # Null
  /\ SourceOf(b).state.kind # "null"
  /\ SourceOf(b).state # TextState("unknown")

\* C22 as stated: after a render, a system box is in the grid exactly when
\* system info is not disabled, its toggle in system_boxes is true and the
\* value of its source entity (the override entity when set and present, the
\* auto-detected one otherwise) is neither null nor 'unknown'.
C22_AsStated ==
  (dom.skeleton /\ dom.header = "intact" /\ ~dom.threw /\ entities # Null) =>
    \A k \in 1..Len(SystemBoxes) :
      LET b == SystemBoxes[k]
      IN  /\ Cardinality(BoxesOf(b)) <= 1
          /\ BoxesOf(b) # {} <=>
               /\ config.show_system_info # FALSE
               /\ config.system_boxes[b.box]
               /\ HasValue(b)
          /\ \A j \in BoxesOf(b) :
               dom.system[j].value = boxValue(b, SourceOf(b))

\* the card shows the banner 'No data - check integration'
BannerShown == dom.skeleton /\ dom.header = "nodata"

\* C23 as stated: the card recovers from the empty state: when the banner is
\* shown and a hass assignment then provides matching entities, that render
\* raises no error and shows the title, the total bandwidth and the ports as
\* a first render of the same snapshot does
C23_AsStated ==
  [][ (BannerShown /\ RenderStep /\ entities' # Null /\ DOMAIN entities' # {})
        => /\ ~dom'.threw
           /\ dom'.header = "intact"
           /\ dom'.bandwidth = FreshDom(config', hass', now').bandwidth
           /\ PortsOutput(dom') = PortsOutput(FreshDom(config', hass', now')) ]_vars

\* C24 as stated: after every hass assignment, in any interleaving with
\* setConfig, the entity map that the card renders from is what
\* _collectEntities returns for the current config and the assigned hass
\* object, also when setConfig changed `device` since the last collection and
\* the same hass object is assigned again
C24_AsStated ==
  [][ /\ (SetHass /\ config # Null) => entities' = collectEntities(config', hass')
      /\ LegacySetHass => legacyEntities' = collectEntities(legacyConfig', legacyHass') ]_vars

\* the reading in Mbit/s that its unit label says it is, as num / den; a
\* label with 'mbit' and any other label is a value in Mbit/s
LabelledMbps(bw) ==
  LET u == toLowerCase(bw.attributes.unit_of_measurement)
  IN  IF includes(u, GbitPat) THEN [num |-> bw.state * 1000, den |-> 1]
      ELSE IF includes(u, MbitPat) THEN [num |-> bw.state, den |-> 1]
      ELSE IF includes(u, KbitPat) THEN [num |-> bw.state, den |-> 1000]
      ELSE IF includes(u, BitPerSecPat) THEN [num |-> bw.state, den |-> 1000000]
      ELSE [num |-> bw.state, den |-> 1]

\* a reading that the cards take for mislabelled Kbps
TakenForKbps(bw) ==
  includes(toLowerCase(bw.attributes.unit_of_measurement), MbitPat) /\ bw.state > 1000

\* a percentage that is not above 100
AtMost100(p) == p.num \div p.den < 100 \/ p = Fraction(100, 1)

\* 100 times the reading over the maximum, both in Mbit/s, capped at 100
ClaimedPct(c, bw) == pctOf(c, LabelledMbps(bw))

\* C25 as stated: when the gauge is shown, its fill is 100 times the total
\* bandwidth over max_bandwidth_gbps, both in the same unit, capped at 100,
\* under every unit label: never above 100, and 50 Gbit/s against 100 Gbps
\* gives 50% (readings taken for mislabelled Kbps aside)
C25_AsStated ==
  /\ (dom.gauge.display = "block" /\ ~TakenForKbps(entities["bandwidth"])) =>
       /\ AtMost100(dom.gauge.pct)
       /\ dom.gauge.pct = ClaimedPct(config, entities["bandwidth"])
  /\ (legacyDom.gauge.display = "block" /\ ~TakenForKbps(legacyEntities["bandwidth"])) =>
       /\ AtMost100(legacyDom.gauge.pct)
       /\ legacyDom.gauge.pct = ClaimedPct(legacyConfig, legacyEntities["bandwidth"])

\* the lines of a tooltip
LinesOf(t) == {t.title[k] : k \in 1..Len(t.title)}

\* C26 as stated: for a port that is up, the text of a row configured as
\* 'speed' and the tooltip line 'Speed:' are never 'OFF', whatever the value
\* of color_scheme (speed, heatmap, vlan, actual_speed or unknown)
C26_AsStated ==
  \A k \in DOMAIN Tiles :
    Tiles[k].isOn =>
      /\ "Speed: OFF" \notin LinesOf(Tiles[k])
      /\ trimOfRow(config.row2) = "speed" => Tiles[k].row2 # "OFF"
      /\ trimOfRow(config.row3) = "speed" => Tiles[k].row3 # "OFF"

\* the ports 1..total_ports that have a status entity and are not hidden
ShownPorts ==
  IF entities = Null THEN {}
  ELSE {i \in 1..config.total_ports :
          /\ PortKey(i) \in DOMAIN entities
          /\ ~Hidden(config, entities[PortKey(i)], now)}

CopperTiles == dom.copper \o dom.top \o dom.bottom

\* one tile for each shown port and none for another number, the copper
\* section holding the numbers below sfp_start_port and the SFP section the
\* others, with class 'sfp'
TilesExact ==
  /\ \A i \in ShownPorts : Cardinality({k \in DOMAIN Tiles : Tiles[k].i = i}) = 1
  /\ \A k \in DOMAIN Tiles : Tiles[k].i \in ShownPorts
  /\ \A k \in DOMAIN CopperTiles :
       CopperTiles[k].i < config.sfp_start_port /\ "sfp" \notin CopperTiles[k].className
  /\ \A k \in DOMAIN dom.sfp :
       dom.sfp[k].i >= config.sfp_start_port /\ "sfp" \in dom.sfp[k].className

\* C27 as stated: after any sequence of renders the card holds exactly one
\* tile for each port number in 1..total_ports that has a status entity and
\* is not hidden, and none for any other number; the tile is in the copper
\* section exactly when its number is below sfp_start_port and otherwise in
\* the SFP section with class 'sfp'; tiles of earlier renders never remain
C27_AsStated ==
  [][ (RenderStep /\ config' # Null) => TilesExact' ]_vars

\* the port i has a tile
HasTile(i) == \E k \in DOMAIN Tiles : Tiles[k].i = i

\* the seconds since the last state change of port i
IdleSeconds(i) == now - entities[PortKey(i)].last_changed

\* C28: after a render, a port whose state is 'on' has its tile, and a port
\* that is not on is left out exactly when hide_unused_port is enabled and
\* the time since its last state change is at least
\* hide_unused_port_hours * 3600 seconds
C28_HideUnused ==
  (dom.skeleton /\ entities # Null) =>
    \A i \in BatchPorts :
      /\ entities[PortKey(i)].state = "on" => HasTile(i)
      /\ entities[PortKey(i)].state # "on" =>
           (~HasTile(i) <=> /\ config.hide_unused_port
                            /\ IdleSeconds(i) >= config.hide_unused_port_hours * 3600)

\* with a period of one hour, a port that is down for exactly 3600 seconds is
\* left out, a port that is down for 3599 seconds is shown
C28_Witness ==
  /\ dom.skeleton /\ entities # Null
  /\ config.hide_unused_port
  /\ config.hide_unused_port_hours = 1
  /\ BatchPorts = {1, 2}
  /\ entities[PortKey(1)].state = "off" /\ IdleSeconds(1) = 3600 /\ ~HasTile(1)
  /\ entities[PortKey(2)].state = "off" /\ IdleSeconds(2) = 3599 /\ HasTile(2)

====
